---- MODULE Spec2Model ----
(***************************************************************************)
(* A model of the ledger core of the Stegos blockchain                     *)
(* (blockchain/src/blockchain.rs): the block log, the in-memory            *)
(* multi-versioned indexes, apply of macro- and micro-blocks, rollback of  *)
(* micro-blocks, view changes and recovery from the log.                   *)
(***************************************************************************)
EXTENDS Integers, Sequences, FiniteSets, TLC

(***************************************************************************)
(* Bounds of the model.                                                    *)
(***************************************************************************)
\* The ledger is explored up to this many macro-blocks (genesis included).
MaxEpoch == 2
\* View changes are explored up to this counter.
MaxViewChange == 1
\* Micro-blocks are applied while the log holds fewer blocks than this.
MaxBlocks == 3
\* A storage error hits one of the first MaxFail accesses of a call to the db.
MaxFail == 4
\* The records in the block log up to which a node following consensus applies
\* micro-blocks.
MaxAwardBlocks == 4
\* The longest activity bitmap handed to epoch_activity_from_macro_block.
MaxActivityLen == 3
\* Payment requests the generator sends.
MaxPayments == 3
\* Outputs spent and outputs made that one call hands to the wallet.
MaxOutputs == 2

(***************************************************************************)
(* Generic helpers.                                                        *)
(***************************************************************************)
None == <<>>
Some(x) == <<x>>
IsSome(o) == o /= None
Unwrap(o) == o[1]

RECURSIVE SeqSum(_)
SeqSum(s) == IF s = <<>> THEN 0 ELSE Head(s) + SeqSum(Tail(s))

RECURSIVE SetToSortedSeq(_)
\* The elements of a finite set of integers in increasing order.
SetToSortedSeq(S) ==
    IF S = {} THEN <<>>
    ELSE LET m == CHOOSE x \in S : \A y \in S : x <= y
         IN <<m>> \o SetToSortedSeq(S \ {m})

Range(s) == {s[i] : i \in DOMAIN s}

EmptyMap == <<>>
MapPut(m, k, v) == [x \in (DOMAIN m) \cup {k} |-> IF x = k THEN v ELSE m[x]]
MapDel(m, k) == [x \in (DOMAIN m) \ {k} |-> m[x]]
MapGet(m, k) == IF k \in DOMAIN m THEN Some(m[k]) ELSE None

(***************************************************************************)
(* Configuration (ChainConfig).  The ledger takes it as a parameter of     *)
(* new(); the model runs a small chain: two micro-blocks per epoch as in   *)
(* tests::iterate, amounts in units of the minimal stake.                  *)
(***************************************************************************)
cfg ==
    [ max_slot_count          |-> 2,
      min_stake_amount        |-> 1,
      stake_epochs            |-> 1,
      micro_blocks_in_epoch   |-> 2,
      awards_difficulty       |-> 1,
      block_reward            |-> 1,
      service_award_per_epoch |-> 1 ]

(***************************************************************************)
(* Log sequence numbers.  LSN(u64, u32) with the derived lexicographic     *)
(* order.  The u32 offset is kept as its four big-endian bytes, because    *)
(* the macro-block offset 4294967295 exceeds the 32-bit integers of TLC.   *)
(***************************************************************************)
U32(n) == << n \div 16777216, (n \div 65536) % 256, (n \div 256) % 256, n % 256 >>

\* u32::MAX = 4294967295 = 0xFFFFFFFF
MACRO_BLOCK_OFFSET == << 255, 255, 255, 255 >>

LSN(epoch, off) == << epoch, off >>
MicroLSN(epoch, n) == LSN(epoch, U32(n))
MacroLSN(epoch) == LSN(epoch, MACRO_BLOCK_OFFSET)
INITIAL_LSN == LSN(0, U32(0))

RECURSIVE BytesLess(_, _)
\* Lexicographic order of two byte strings of the same length.
BytesLess(a, b) ==
    IF a = <<>> THEN FALSE
    ELSE IF Head(a) /= Head(b) THEN Head(a) < Head(b)
    ELSE BytesLess(Tail(a), Tail(b))

LsnLess(a, b) == a[1] < b[1] \/ (a[1] = b[1] /\ BytesLess(a[2], b[2]))
LsnLeq(a, b) == a = b \/ LsnLess(a, b)
LsnMax(a, b) == IF LsnLess(a, b) THEN b ELSE a

U64(n) == << 0, 0, 0, 0 >> \o U32(n)

\* block_key that writes both numbers with the least significant byte first.
block_key_LittleEndian(lsn) ==
    [ i \in 1 .. 8 |-> U64(lsn[1])[9 - i] ] \o [ i \in 1 .. 4 |-> lsn[2][5 - i] ]

\* The 12-byte big-endian key of a block in the log.
block_key(lsn) == U64(lsn[1]) \o lsn[2]

(***************************************************************************)
(* Multi-versioned map (mvcc::MultiVersionedMap): the live map `current`,  *)
(* an undo stack of (lsn, key, prior binding) and the current LSN.         *)
(* `floor` is the LSN of the last checkpoint; `misuse` records an insert   *)
(* or remove below current_lsn and `behind` a rollback behind the          *)
(* checkpoint, both programmer errors.  Mutations of one LSN are rolled back together, so    *)
(* only the first prior binding of a key at an LSN is ever restored: the   *)
(* stack keeps that one.                                                   *)
(***************************************************************************)
MvmNew ==
    [ current |-> EmptyMap, undo |-> <<>>, lsn |-> INITIAL_LSN,
      floor |-> INITIAL_LSN, misuse |-> FALSE, behind |-> FALSE ]

MvmGet(m, k) == MapGet(m.current, k)
MvmKeys(m) == DOMAIN m.current
MvmCurrentLsn(m) == m.lsn

\* The undo stack after a mutation of key k at lsn.
MvmRecord(m, lsn, k) ==
    IF \E i \in DOMAIN m.undo : m.undo[i].lsn = lsn /\ m.undo[i].key = k
    THEN m.undo
    ELSE Append(m.undo, [lsn |-> lsn, key |-> k, old |-> MapGet(m.current, k)])

MvmInsert(m, lsn, k, v) ==
    [ m EXCEPT !.current = MapPut(m.current, k, v),
               !.undo = MvmRecord(m, lsn, k),
               !.lsn = LsnMax(m.lsn, lsn),
               !.misuse = m.misuse \/ LsnLess(lsn, m.lsn) ]

MvmRemove(m, lsn, k) ==
    [ m EXCEPT !.current = MapDel(m.current, k),
               !.undo = MvmRecord(m, lsn, k),
               !.lsn = LsnMax(m.lsn, lsn),
               !.misuse = m.misuse \/ LsnLess(lsn, m.lsn) ]

MvmCheckpoint(m) == [ m EXCEPT !.undo = <<>>, !.floor = m.lsn ]

RECURSIVE MvmUndo_Through(_, _, _)
\* MvmUndo that also replays the entries of the target LSN itself.
MvmUndo_Through(current, undo, target) ==
    IF undo = <<>> \/ LsnLess(undo[Len(undo)].lsn, target)
    THEN [ current |-> current, undo |-> undo ]
    ELSE LET e == undo[Len(undo)]
             restored == IF IsSome(e.old) THEN MapPut(current, e.key, Unwrap(e.old))
                         ELSE MapDel(current, e.key)
         IN MvmUndo_Through(restored, SubSeq(undo, 1, Len(undo) - 1), target)

RECURSIVE MvmUndo(_, _, _)
\* Replays the undo stack in reverse while its top entry is above the target.
MvmUndo(current, undo, target) ==
    IF undo = <<>> \/ LsnLeq(undo[Len(undo)].lsn, target)
    THEN [ current |-> current, undo |-> undo ]
    ELSE LET e == undo[Len(undo)]
             restored == IF IsSome(e.old) THEN MapPut(current, e.key, Unwrap(e.old))
                         ELSE MapDel(current, e.key)
         IN MvmUndo(restored, SubSeq(undo, 1, Len(undo) - 1), target)

\* Undo entries are replayed until current_lsn <= target: current_lsn falls
\* back to the LSN of the last mutation that is kept, or of the checkpoint.
MvmRolledBack(m, target, r) ==
    [ m EXCEPT !.current = r.current,
               !.undo = r.undo,
               !.lsn = IF LsnLeq(m.lsn, target) THEN m.lsn
                       ELSE IF r.undo = <<>> THEN m.floor
                       ELSE LsnMax(m.floor, r.undo[Len(r.undo)].lsn),
               !.behind = m.behind \/ LsnLess(target, m.floor) ]

MvmRollbackToLsn(m, target) ==
    MvmRolledBack(m, target, MvmUndo(m.current, m.undo, target))

(***************************************************************************)
(* Hashes, curve points, outputs and transactions.                         *)
(***************************************************************************)
\* Hash::digest: a collision-free digest, kept as the wrapped pre-image.
Digest(x) == << x >>

\* Pt: a point a*A + g*G over the two generators A (of fee_a) and G.
PtIdentity == [ a |-> 0, g |-> 0 ]
PtAdd(p, q) == [ a |-> p.a + q.a, g |-> p.g + q.g ]
PtSub(p, q) == [ a |-> p.a - q.a, g |-> p.g - q.g ]
fee_a(x) == [ a |-> x, g |-> 0 ]
\* gamma * Pt::one()
GammaG(gamma) == [ a |-> 0, g |-> gamma ]

\* Network keys of the validators and the account key of each.
Validators == {1, 2}
AccountOf(v) == 10 + v
\* The account of the ordinary (non-staking) coins.
Payer == AccountOf(0)

PaymentOutput(recipient, amount, serno) ==
    [ kind |-> "Payment", amount |-> amount, blind |-> 1, validator |-> 0,
      recipient |-> recipient, serno |-> serno ]
PublicPaymentOutput(recipient, amount, serno) ==
    [ kind |-> "PublicPayment", amount |-> amount, blind |-> 0, validator |-> 0,
      recipient |-> recipient, serno |-> serno ]
StakeOutput(validator, recipient, amount, serno) ==
    [ kind |-> "Stake", amount |-> amount, blind |-> 0, validator |-> validator,
      recipient |-> recipient, serno |-> serno ]

pedersen_commitment(o) == [ a |-> o.amount, g |-> o.blind ]

RECURSIVE SumCommitments(_)
SumCommitments(outs) ==
    IF outs = <<>> THEN PtIdentity
    ELSE PtAdd(pedersen_commitment(Head(outs)), SumCommitments(Tail(outs)))

Tx(kind, txins, txouts, gamma, block_reward, cheater) ==
    [ kind |-> kind, txins |-> txins, txouts |-> txouts, gamma |-> gamma,
      block_reward |-> block_reward, cheater |-> cheater ]

\* CoinbaseTransaction { block_reward, block_fee: 0, gamma: -gamma, txouts }
CoinbaseTx(reward, serno) ==
    LET out == PaymentOutput(Payer, reward, serno)
    IN Tx("Coinbase", <<>>, <<out>>, 0 - out.blind, reward, 0)
\* A payment spending one output and creating one output of the same amount.
PaymentTx(input, out) ==
    Tx("Payment", <<Digest(input)>>, <<out>>, input.blind - out.blind, 0, 0)
RestakeTx(input, out) == Tx("Restake", <<Digest(input)>>, <<out>>, 0, 0, 0)
SlashingTx(cheater) == Tx("Slashing", <<>>, <<>>, 0, 0, cheater)
ServiceAwardTx(out) == Tx("ServiceAward", <<>>, <<out>>, 0, 0, 0)

\* BitVector: capacity and the set of indices that are set.
BitVectorOnes(n) == [ cap |-> n, bits |-> 0 .. (n - 1) ]
BitVectorNew == [ cap |-> 0, bits |-> {} ]

MicroBlock(epoch, offset, previous, timestamp, view_change, pkey, random, transactions) ==
    [ kind |-> "Micro", epoch |-> epoch, offset |-> offset, previous |-> previous,
      timestamp |-> timestamp, view_change |-> view_change, pkey |-> pkey,
      random |-> random, transactions |-> transactions,
      inputs |-> <<>>, outputs |-> <<>>, gamma |-> 0, block_reward |-> 0,
      activity_map |-> BitVectorNew, difficulty |-> 0 ]

MacroBlock(epoch, previous, timestamp, view_change, pkey, random, difficulty, block_reward, activity_map, gamma, inputs, outputs) ==
    [ kind |-> "Macro", epoch |-> epoch, offset |-> 0, previous |-> previous,
      timestamp |-> timestamp, view_change |-> view_change, pkey |-> pkey,
      random |-> random, transactions |-> <<>>,
      inputs |-> inputs, outputs |-> outputs, gamma |-> gamma,
      block_reward |-> block_reward, activity_map |-> activity_map,
      difficulty |-> difficulty ]

RECURSIVE FlatTxins(_)
FlatTxins(txs) == IF txs = <<>> THEN <<>> ELSE Head(txs).txins \o FlatTxins(Tail(txs))
RECURSIVE FlatTxouts(_)
FlatTxouts(txs) == IF txs = <<>> THEN <<>> ELSE Head(txs).txouts \o FlatTxouts(Tail(txs))
RECURSIVE SumGamma(_)
SumGamma(txs) == IF txs = <<>> THEN 0 ELSE Head(txs).gamma + SumGamma(Tail(txs))

RECURSIVE PruneTxs(_, _, _)
\* MacroBlock::from_transactions: an input that spends an output created by
\* an earlier transaction of the list cancels it; the rest are the block's
\* inputs and outputs.
PruneTxs(txs, inputs, outputs) ==
    IF txs = <<>> THEN [ inputs |-> inputs, outputs |-> outputs ]
    ELSE LET tx == Head(txs)
             created == { Digest(outputs[i]) : i \in DOMAIN outputs }
             cancelled == { h \in Range(tx.txins) : h \in created }
             kept == SelectSeq(outputs, LAMBDA o : Digest(o) \notin cancelled)
             fresh == SelectSeq(tx.txins, LAMBDA h : h \notin cancelled)
         IN PruneTxs(Tail(txs), inputs \o fresh, kept \o tx.txouts)

MacroBlockFromTransactions(previous, epoch, view_change, pkey, random, difficulty, timestamp, block_reward, activity_map, txs) ==
    LET io == PruneTxs(txs, <<>>, <<>>)
    IN MacroBlock(epoch, previous, timestamp, view_change, pkey, random, difficulty,
                  block_reward, activity_map, SumGamma(txs), io.inputs, io.outputs)

(***************************************************************************)
(* Stake escrow (escrow::Escrow): a multi-versioned map from               *)
(* (validator, utxo hash) to (account, amount, active_until_epoch).        *)
(***************************************************************************)
EscrowNew == MvmNew

EscrowStake(e, lsn, validator, recipient, output_hash, epoch, stake_epochs, amount) ==
    MvmInsert(e, lsn, << validator, output_hash >>,
              [ account |-> recipient, amount |-> amount,
                active_until_epoch |-> epoch + stake_epochs ])

\* Fails (StakeIsLocked) and leaves the escrow alone while the stake is locked.
EscrowUnstake(e, lsn, validator, output_hash, epoch) ==
    LET key == << validator, output_hash >>
    IN IF key \in MvmKeys(e) /\ epoch < e.current[key].active_until_epoch
       THEN e
       ELSE MvmRemove(e, lsn, key)

\* The error that unstake returns: the stake is locked before active_until.
EscrowUnstakeError(e, validator, output_hash, epoch) ==
    IF /\ << validator, output_hash >> \in MvmKeys(e)
       /\ epoch < e.current[<< validator, output_hash >>].active_until_epoch
    THEN "StakeIsLocked"
    ELSE ""

RECURSIVE EscrowSum(_, _)
EscrowSum(e, keys) ==
    IF keys = {} THEN 0
    ELSE LET k == CHOOSE x \in keys : TRUE
         IN e.current[k].amount + EscrowSum(e, keys \ {k})

EscrowValidatorKeys(e, v) == { k \in MvmKeys(e) : k[1] = v }
EscrowBalance(e, v) == EscrowSum(e, EscrowValidatorKeys(e, v))

\* The validators whose stake reaches min_stake_amount, ordered by network key.
get_stakers_majority(e, epoch, min_stake_amount) ==
    LET staked == { v \in { k[1] : k \in MvmKeys(e) } :
                      EscrowBalance(e, v) >= min_stake_amount }
        keys == SetToSortedSeq(staked)
    IN [ i \in DOMAIN keys |-> << keys[i], EscrowBalance(e, keys[i]) >> ]

account_by_network_key(e, v) ==
    IF EscrowValidatorKeys(e, v) = {} THEN None
    ELSE Some(e.current[CHOOSE k \in EscrowValidatorKeys(e, v) : TRUE].account)

(***************************************************************************)
(* Election (election.rs) and VRF.                                         *)
(***************************************************************************)
\* election::mix: the seed of the VRF of a block.
mix(random, view_change) == (2 * random + view_change + 1) % 4
\* pbc::make_VRF: deterministic in the key and the seed.
make_VRF(key, seed) == (seed + key) % 4

\* The slot of the election: a deterministic draw seeded by the VRF output.
ElectionSlot(validators, random, i) ==
    validators[(((random + i) % cfg.max_slot_count) % Len(validators)) + 1][1]

select_validators_slots(stakers, random, max_slot_count) ==
    [ validators |-> stakers,
      facilitator |-> IF stakers = <<>> THEN 0 ELSE ElectionSlot(stakers, random, 0),
      random |-> random,
      view_change |-> 0 ]

\* ElectionResult::select_leader
select_leader(er, view_change) == ElectionSlot(er.validators, er.random, view_change)

(***************************************************************************)
(* Service awards (awards::Awards).                                        *)
(***************************************************************************)
Active == [ kind |-> "Active", epoch |-> 0, offset |-> 0 ]
FailedAt(epoch, offset) == [ kind |-> "FailedAt", epoch |-> epoch, offset |-> offset ]

AwardsNew(difficulty) ==
    [ budget |-> 0, difficulty |-> difficulty, validators_activity |-> EmptyMap ]

RECURSIVE MergeActivity(_, _)
\* A failure replaces any state; activity is recorded for a new account only.
MergeActivity(known, pairs) ==
    IF pairs = <<>> THEN known
    ELSE LET k == Head(pairs)[1]
             v == Head(pairs)[2]
         IN MergeActivity(IF v.kind = "FailedAt" \/ k \notin DOMAIN known
                          THEN MapPut(known, k, v) ELSE known,
                          Tail(pairs))

\* Adds the epoch's pool to the budget and merges the activity of the epoch,
\* given as a sequence of (account, state) pairs.
finalize_epoch(aw, pool, pairs) ==
    [ aw EXCEPT !.budget = aw.budget + pool,
                !.validators_activity = MergeActivity(aw.validators_activity, pairs) ]

RECURSIVE Pow2(_)
Pow2(n) == IF n = 0 THEN 1 ELSE 2 * Pow2(n - 1)

\* At most one winner, drawn from the accounts that never failed.
check_winners(aw, random) ==
    LET eligible == SetToSortedSeq({ k \in DOMAIN aw.validators_activity :
                                       aw.validators_activity[k].kind = "Active" })
    IN IF eligible = <<>> \/ random % Pow2(aw.difficulty) /= 0
       THEN [ awards |-> aw, winner |-> None ]
       ELSE [ awards |-> [ aw EXCEPT !.budget = 0, !.validators_activity = EmptyMap ],
              winner |-> Some(<< eligible[((random \div Pow2(aw.difficulty)) % Len(eligible)) + 1],
                                 aw.budget >>) ]

(***************************************************************************)
(* The ledger (struct Blockchain).  A ledger value is a record of the      *)
(* fields of the struct together with the block log it owns; `panic` is    *)
(* the message of the abort that ended the process ("" while it runs).     *)
(***************************************************************************)
Unit == "()"

Panic(st, msg) == [ st EXCEPT !.panic = IF @ = "" THEN msg ELSE @ ]

\* Blockchain::new, up to the call of recover().
Blank(database, difficulty) ==
    [ database |-> database,
      block_by_hash |-> MvmNew,
      output_by_hash |-> MvmNew,
      balance |-> MvmInsert(MvmNew, INITIAL_LSN, Unit,
                            [ created |-> PtIdentity, burned |-> PtIdentity,
                              gamma |-> 0, block_reward |-> 0 ]),
      escrow |-> EscrowNew,
      difficulty |-> difficulty,
      epoch |-> 0,
      offset |-> 0,
      election_result |-> MvmNew,
      view_change_proof |-> None,
      last_macro_block_timestamp |-> 0,
      last_macro_block_hash |-> Digest("genesis"),
      last_macro_block_random |-> Digest("genesis"),
      last_block_timestamp |-> 0,
      last_block_hash |-> Digest("genesis"),
      awards |-> AwardsNew(cfg.awards_difficulty),
      epoch_activity |-> MvmNew,
      panic |-> "" ]

election_result(st) == st.election_result.current[Unit]
validators(st) == election_result(st).validators
view_change(st) == election_result(st).view_change
last_random(st) == election_result(st).random
balance(st) == st.balance.current[Unit]
contains_output(st, h) == IsSome(MvmGet(st.output_by_hash, h))
contains_block(st, h) == IsSome(MvmGet(st.block_by_hash, h))
unspent(st) == MvmKeys(st.output_by_hash)
is_epoch_full(st) == st.offset >= cfg.micro_blocks_in_epoch

\* Blockchain::block: the record of the log at lsn; it must exist.
DbGet(st, lsn) == MapGet(st.database, block_key(lsn))

\* Blockchain::write_block
write_block(st, lsn, block) ==
    [ st EXCEPT !.database = MapPut(st.database, block_key(lsn), block) ]

\* assert!(cond, msg), expect(msg): the ledger aborts unless cond holds.
PanicUnless(st, cond, msg) == IF cond THEN st ELSE Panic(st, msg)

\* The result of a call that returns Ok(()) unless the process aborted.
Result(st) == [ st |-> st, ret |-> IF st.panic = "" THEN "Ok" ELSE "Panic" ]

\* The LSN of the block that an OutputKey points into.
OutputKeyLsn(key) ==
    IF key.kind = "MacroBlock" THEN MacroLSN(key.epoch)
    ELSE MicroLSN(key.epoch, key.offset)

\* The output that key locates in the record b read from the log.
OutputOfBlock(b, key) ==
    IF ~IsSome(b) THEN [ panic |-> "Block must exists", value |-> None ]
    ELSE IF key.kind = "MacroBlock"
    THEN IF Unwrap(b).kind /= "Macro"
         THEN [ panic |-> "unwrap_macro", value |-> None ]
         ELSE IF key.txout_id + 1 \in DOMAIN Unwrap(b).outputs
         THEN [ panic |-> "", value |-> Some(Unwrap(b).outputs[key.txout_id + 1]) ]
         ELSE [ panic |-> "", value |-> None ]
    ELSE IF Unwrap(b).kind /= "Micro"
         THEN [ panic |-> "unwrap_micro", value |-> None ]
         ELSE IF key.tx_id + 1 \notin DOMAIN Unwrap(b).transactions
         THEN [ panic |-> "Corrupted outputs_by_hash (Micro-2)", value |-> None ]
         ELSE IF key.txout_id + 1 \notin DOMAIN Unwrap(b).transactions[key.tx_id + 1].txouts
         THEN [ panic |-> "Corrupted outputs_by_hash (Micro-3)", value |-> None ]
         ELSE [ panic |-> "",
                value |-> Some(Unwrap(b).transactions[key.tx_id + 1]
                                   .txouts[key.txout_id + 1]) ]

\* Blockchain::output_by_hash without storage errors: the output located by
\* the OutputKey of the hash, or the abort the lookup ends in.
output_by_hash(st, h) ==
    IF ~contains_output(st, h) THEN [ panic |-> "", value |-> None ]
    ELSE OutputOfBlock(DbGet(st, OutputKeyLsn(Unwrap(MvmGet(st.output_by_hash, h)))),
                       Unwrap(MvmGet(st.output_by_hash, h)))

\* Blockchain::blocks_starting: the records of the log whose key is at or
\* after the key of lsn, in the order of the keys.
RECURSIVE SortKeys(_)
SortKeys(keys) ==
    IF keys = {} THEN <<>>
    ELSE LET m == CHOOSE x \in keys : \A y \in keys : x = y \/ BytesLess(x, y)
         IN <<m>> \o SortKeys(keys \ {m})

\* The records of the log at the keys, in their order.
BlocksAt(st, keys) == [ i \in DOMAIN keys |-> st.database[keys[i]] ]

blocks_starting(st, epoch, offset) ==
    BlocksAt(st, SortKeys({ k \in DOMAIN st.database :
                              ~BytesLess(k, block_key(MicroLSN(epoch, offset))) }))

\* Blockchain::blocks
blocks(st) == BlocksAt(st, SortKeys(DOMAIN st.database))

(***************************************************************************)
(* Blockchain::recover_accounts                                            *)
(***************************************************************************)
\* Output::is_my_utxo: the output can be opened with the keys of pkey.
is_my_utxo(output, pkey) == output.recipient = pkey

OutputRecovery(output, epoch, is_final, timestamp) ==
    [ output |-> output, epoch |-> epoch, is_final |-> is_final, timestamp |-> timestamp ]

\* update_account_state that does not look for the output in the unspent set.
update_account_state_WithSpent(st, accounts_state, accounts, output, epoch, is_final, timestamp) ==
    [ account_id \in DOMAIN accounts |->
        IF is_my_utxo(output, accounts[account_id])
        THEN Append(accounts_state[account_id],
                    OutputRecovery(output, epoch, is_final, timestamp))
        ELSE accounts_state[account_id] ]

\* The closure update_account_state of recover_accounts.
update_account_state(st, accounts_state, accounts, output, epoch, is_final, timestamp) ==
    IF ~contains_output(st, Digest(output)) THEN accounts_state
    ELSE [ account_id \in DOMAIN accounts |->
             IF is_my_utxo(output, accounts[account_id])
             THEN Append(accounts_state[account_id],
                         OutputRecovery(output, epoch, is_final, timestamp))
             ELSE accounts_state[account_id] ]

RECURSIVE RecoverOutputs(_, _, _, _, _, _, _)
\* The loop over the outputs outs of one block or transaction.
RecoverOutputs(st, accounts_state, accounts, outs, epoch, is_final, timestamp) ==
    IF outs = <<>> THEN accounts_state
    ELSE RecoverOutputs(st,
                        update_account_state(st, accounts_state, accounts, Head(outs),
                                             epoch, is_final, timestamp),
                        accounts, Tail(outs), epoch, is_final, timestamp)

RECURSIVE RecoverTxs(_, _, _, _, _, _)
\* The loop over the transactions txs of a micro-block.
RecoverTxs(st, accounts_state, accounts, txs, epoch, timestamp) ==
    IF txs = <<>> THEN accounts_state
    ELSE RecoverTxs(st,
                    RecoverOutputs(st, accounts_state, accounts, Head(txs).txouts, epoch,
                                   FALSE, timestamp),
                    accounts, Tail(txs), epoch, timestamp)

RECURSIVE RecoverScan(_, _, _, _, _)
\* The loop over the blocks bs of the log; epoch counts the macro-blocks.
RecoverScan(st, accounts_state, accounts, bs, epoch) ==
    IF bs = <<>> THEN [ accounts_state |-> accounts_state, epoch |-> epoch ]
    ELSE IF Head(bs).kind = "Macro"
    THEN RecoverScan(st,
                     RecoverOutputs(st, accounts_state, accounts, Head(bs).outputs, epoch,
                                    TRUE, Head(bs).timestamp),
                     accounts, Tail(bs), epoch + 1)
    ELSE RecoverScan(st,
                     RecoverTxs(st, accounts_state, accounts, Head(bs).transactions, epoch,
                                Head(bs).timestamp),
                     accounts, Tail(bs), epoch)

\* assert_eq!(epoch, self.epoch) and the value returned.
RecoveredAccounts(st, scan) ==
    [ panic |-> IF scan.epoch = st.epoch THEN "" ELSE "epoch == self.epoch",
      value |-> scan.accounts_state ]

\* Blockchain::recover_accounts for the keys accounts.
recover_accounts(st, accounts) ==
    RecoveredAccounts(st, RecoverScan(st, [ i \in DOMAIN accounts |-> <<>> ], accounts,
                                      blocks_starting(st, 0, 0), 0))

(***************************************************************************)
(* Blockchain::register_inputs_and_outputs                                 *)
(***************************************************************************)
OutputKey(kind, epoch, offset, tx_id, txout_id) ==
    [ kind |-> kind, epoch |-> epoch, offset |-> offset, tx_id |-> tx_id,
      txout_id |-> txout_id ]

Min(a, b) == IF a < b THEN a ELSE b

\* assert_eq!(self.escrow.current_lsn(), lsn)
EscrowLsnIs(st, lsn) ==
    PanicUnless(st, MvmCurrentLsn(st.escrow) = lsn, "escrow.current_lsn")

\* RemoveUtxo that leaves the spent output in output_by_hash.
RemoveUtxo_Keeps(st, lsn, h) ==
    PanicUnless(st, contains_output(st, h), "Missing input UTXO")

\* output_by_hash.remove(lsn, input_hash).expect("Missing input UTXO")
RemoveUtxo(st, lsn, h) ==
    PanicUnless([ st EXCEPT !.output_by_hash = MvmRemove(@, lsn, h) ],
                contains_output(st, h), "Missing input UTXO")

\* UnstakeInput that takes the epoch after the current one as epoch_now.
UnstakeInput_NextEpoch(st, lsn, h, input) ==
    IF input.kind /= "Stake" THEN st
    ELSE EscrowLsnIs([ st EXCEPT !.escrow = EscrowUnstake(@, lsn, input.validator, h,
                                                          st.epoch + 1) ], lsn)

\* The StakeOutput arm of the loop over the inputs.
UnstakeInput(st, lsn, h, input) ==
    IF input.kind /= "Stake" THEN st
    ELSE EscrowLsnIs([ st EXCEPT !.escrow = EscrowUnstake(@, lsn, input.validator, h,
                                                          st.epoch) ], lsn)

RECURSIVE ProcessInputs(_, _, _, _, _)
\* The loop over input_hashes.iter().zip(inputs), from position i.
ProcessInputs(st, lsn, input_hashes, inputs, i) ==
    IF i > Min(Len(input_hashes), Len(inputs)) THEN st
    ELSE ProcessInputs(UnstakeInput(RemoveUtxo(st, lsn, input_hashes[i]), lsn,
                                    input_hashes[i], inputs[i]),
                       lsn, input_hashes, inputs, i + 1)

\* output_by_hash.insert(lsn, output_hash, output_key): no hash collision,
\* and the index is at lsn.
InsertUtxo(st, lsn, output, key) ==
    PanicUnless(
        PanicUnless([ st EXCEPT !.output_by_hash = MvmInsert(@, lsn, Digest(output), key) ],
                    ~contains_output(st, Digest(output)), "UTXO hash collision"),
        MvmCurrentLsn(MvmInsert(st.output_by_hash, lsn, Digest(output), key)) = lsn,
        "output_by_hash.current_lsn")

\* StakeOutputArm that passes recipient and validator in each other's place.
StakeOutputArm_KeysSwapped(st, lsn, output) ==
    IF output.kind /= "Stake" THEN st
    ELSE EscrowLsnIs([ st EXCEPT !.escrow = EscrowStake(@, lsn, output.recipient,
                                                        output.validator, Digest(output),
                                                        st.epoch, cfg.stake_epochs,
                                                        output.amount) ], lsn)

\* StakeOutputArm that does not put the stake in escrow.
StakeOutputArm_NoStake(st, lsn, output) == st

\* The StakeOutput arm of the loop over the outputs.
StakeOutputArm(st, lsn, output) ==
    IF output.kind /= "Stake" THEN st
    ELSE EscrowLsnIs([ st EXCEPT !.escrow = EscrowStake(@, lsn, output.validator,
                                                        output.recipient, Digest(output),
                                                        st.epoch, cfg.stake_epochs,
                                                        output.amount) ], lsn)

RECURSIVE ProcessOutputs(_, _, _, _, _)
\* The loop over output_keys.into_iter().zip(outputs), from position i.
ProcessOutputs(st, lsn, output_keys, outputs, i) ==
    IF i > Min(Len(output_keys), Len(outputs)) THEN st
    ELSE ProcessOutputs(StakeOutputArm(InsertUtxo(st, lsn, outputs[i], output_keys[i]),
                                       lsn, outputs[i]),
                        lsn, output_keys, outputs, i + 1)

\* fee_a(block_reward) + burned - created == gamma * Pt::one()
BalanceHolds(block_reward, burned, created, gamma) ==
    PtSub(PtAdd(fee_a(block_reward), burned), created) = GammaG(gamma)

\* NewBalance that forgets the burned inputs of the block.
NewBalance_DropsBurned(orig, created, burned, gamma, block_reward) ==
    [ created |-> PtAdd(orig.created, created),
      burned |-> orig.burned,
      gamma |-> orig.gamma + gamma,
      block_reward |-> orig.block_reward + block_reward ]

\* The global balance after a block with the given sums.
NewBalance(orig, created, burned, gamma, block_reward) ==
    [ created |-> PtAdd(orig.created, created),
      burned |-> PtAdd(orig.burned, burned),
      gamma |-> orig.gamma + gamma,
      block_reward |-> orig.block_reward + block_reward ]

\* The block hash enters block_by_hash: no collision, and the index is at lsn.
RegisterBlockHash(st, lsn, block_hash) ==
    PanicUnless(
        PanicUnless([ st EXCEPT !.block_by_hash = MvmInsert(@, lsn, block_hash, lsn) ],
                    ~contains_block(st, block_hash), "Block hash collision"),
        MvmCurrentLsn(MvmInsert(st.block_by_hash, lsn, block_hash, lsn)) = lsn,
        "block_by_hash.current_lsn")

\* The global balance is checked and stored at lsn.
StoreBalance(st, lsn, new_balance) ==
    PanicUnless(
        PanicUnless([ st EXCEPT !.balance = MvmInsert(@, lsn, Unit, new_balance) ],
                    BalanceHolds(new_balance.block_reward, new_balance.burned,
                                 new_balance.created, new_balance.gamma),
                    "Invalid global monetary balance"),
        MvmCurrentLsn(MvmInsert(st.balance, lsn, Unit, new_balance)) = lsn,
        "balance.current_lsn")

\* The monetary balance of the block, then of the ledger.
UpdateBalance(st, lsn, burned, created, gamma, block_reward) ==
    StoreBalance(
        PanicUnless(st, BalanceHolds(block_reward, burned, created, gamma),
                    "Invalid block monetary balance"),
        lsn, NewBalance(balance(st), created, burned, gamma, block_reward))

register_inputs_and_outputs(st, lsn, block_hash, input_hashes, inputs, output_keys, outputs, gamma, block_reward) ==
    UpdateBalance(
        ProcessOutputs(
            ProcessInputs(RegisterBlockHash(st, lsn, block_hash), lsn, input_hashes,
                          inputs, 1),
            lsn, output_keys, outputs, 1),
        lsn,
        SumCommitments(SubSeq(inputs, 1, Min(Len(input_hashes), Len(inputs)))),
        SumCommitments(SubSeq(outputs, 1, Min(Len(output_keys), Len(outputs)))),
        gamma, block_reward)

(***************************************************************************)
(* Election history and service awards of the ledger.                      *)
(***************************************************************************)
\* The election result read from the map `election` rolled back to lsn.
ElectionAt(election, lsn) ==
    IF ~LsnLeq(MvmCurrentLsn(election), lsn)
    THEN [ panic |-> "election.current_lsn", value |-> None ]
    ELSE IF ~IsSome(MvmGet(election, Unit))
    THEN [ panic |-> "election.get", value |-> None ]
    ELSE [ panic |-> "", value |-> MvmGet(election, Unit) ]

\* LsnBefore that takes the LSN of `offset` itself within the epoch.
LsnBefore_SameOffset(st, offset) ==
    IF offset = 0 THEN MacroLSN(st.epoch - 1) ELSE MicroLSN(st.epoch, offset)

\* LsnBefore that takes the first micro-block of the epoch as its start.
LsnBefore_FirstBlock(st, offset) ==
    IF offset = 0 THEN MicroLSN(st.epoch, 0) ELSE MicroLSN(st.epoch, offset - 1)

\* The LSN of the block before `offset` in the current epoch.
LsnBefore(st, offset) ==
    IF offset = 0 THEN MacroLSN(st.epoch - 1) ELSE MicroLSN(st.epoch, offset - 1)

\* Blockchain::election_result_by_offset: the election result as of the
\* block before `offset`, read from a rolled-back clone of the map.
election_result_by_offset(st, offset) ==
    IF st.epoch = 0 THEN [ panic |-> "epoch > 0", value |-> None ]
    ELSE IF offset > st.offset
    THEN [ panic |-> "Election info from future offset.", value |-> None ]
    ELSE ElectionAt(MvmRollbackToLsn(st.election_result, LsnBefore(st, offset)),
                    LsnBefore(st, offset))

\* The validators of an election result r, or the abort r ended in.
ValidatorsOf(r) ==
    IF r.panic /= "" THEN r
    ELSE [ panic |-> "", value |-> Some(Unwrap(r.value).validators) ]

\* Blockchain::validators_at_epoch_start
validators_at_epoch_start(st) == ValidatorsOf(election_result_by_offset(st, 0))

\* The activity of validator_id = i - 1 according to the bitmap.
ActivityOfBit(st, activity_map, i) ==
    IF (i - 1) \in activity_map.bits THEN Active ELSE FailedAt(st.epoch, st.offset)

\* PutActivity in which the last validator of an account decides.
PutActivity_LastWins(acc, account, activity) == MapPut(acc, account, activity)

\* The entry of a validator's account in the activity map: a failure that
\* is already recorded stays.
PutActivity(acc, account, activity) ==
    IF account \in DOMAIN acc /\ acc[account].kind = "FailedAt" THEN acc
    ELSE MapPut(acc, account, activity)

RECURSIVE ActivityFromMap(_, _, _, _, _)
\* The loop of epoch_activity_from_macro_block over the validators at the
\* start of the epoch, from position i (validator_id = i - 1).
ActivityFromMap(st, vals, activity_map, acc, i) ==
    IF i > Len(vals) THEN [ panic |-> "", err |-> "", value |-> acc ]
    ELSE IF ~IsSome(account_by_network_key(st.escrow, vals[i][1]))
    THEN [ panic |-> "Validator with account key", err |-> "", value |-> acc ]
    ELSE ActivityFromMap(
             st, vals, activity_map,
             PutActivity(acc, Unwrap(account_by_network_key(st.escrow, vals[i][1])),
                         ActivityOfBit(st, activity_map, i)),
             i + 1)

\* The activity that the bitmap gives to the validators vs of the epoch.
ActivityOfValidators(st, vs, activity_map) ==
    IF vs.panic /= "" THEN [ panic |-> vs.panic, err |-> "", value |-> EmptyMap ]
    ELSE IF activity_map.cap > Len(Unwrap(vs.value))
    THEN [ panic |-> "", err |-> "TooBigActivitymap", value |-> EmptyMap ]
    ELSE ActivityFromMap(st, Unwrap(vs.value), activity_map, EmptyMap, 1)

\* Blockchain::epoch_activity_from_macro_block; err is the error returned.
epoch_activity_from_macro_block(st, activity_map) ==
    ActivityOfValidators(st, validators_at_epoch_start(st), activity_map)

\* A map as the sequence of its (key, value) pairs in the order of the keys.
MapPairs(m) ==
    [ i \in DOMAIN SetToSortedSeq(DOMAIN m) |->
        << SetToSortedSeq(DOMAIN m)[i], m[SetToSortedSeq(DOMAIN m)[i]] >> ]

\* Blockchain::epoch_activity: the recorded activity of the validators of
\* the current election, Active when nothing is recorded.
epoch_activity_of(st) ==
    [ k \in { validators(st)[i][1] : i \in DOMAIN validators(st) } |->
        IF k \in DOMAIN st.epoch_activity.current THEN st.epoch_activity.current[k]
        ELSE Active ]

\* The bitmap of the validators of the epoch that did not fail.
ActivityBits(epoch_validators, activity) ==
    [ cap |-> Len(epoch_validators),
      bits |-> { i \in 0 .. (Len(epoch_validators) - 1) :
                   /\ epoch_validators[i + 1][1] \in DOMAIN activity
                   /\ activity[epoch_validators[i + 1][1]].kind /= "FailedAt" } ]

\* The activity by account key, in the order of the network keys.
ValidatorsActivity(st, activity, keys) ==
    [ i \in DOMAIN keys |->
        << Unwrap(account_by_network_key(st.escrow, keys[i])), activity[keys[i]] >> ]

\* The awards step of awards_from_active_epoch for the validators vs of
\* the epoch and the recorded activity.
AwardsOfActivity(st, random, vs, activity) ==
    IF vs.panic /= ""
    THEN [ panic |-> vs.panic, activity_map |-> BitVectorNew, winner |-> None ]
    ELSE IF \E k \in DOMAIN activity : ~IsSome(account_by_network_key(st.escrow, k))
    THEN [ panic |-> "validator has account key",
           activity_map |-> ActivityBits(Unwrap(vs.value), activity), winner |-> None ]
    ELSE [ panic |-> "",
           activity_map |-> ActivityBits(Unwrap(vs.value), activity),
           winner |-> check_winners(
                          finalize_epoch(st.awards, cfg.service_award_per_epoch,
                                         ValidatorsActivity(
                                             st, activity,
                                             SetToSortedSeq(DOMAIN activity))),
                          random).winner ]

\* Blockchain::awards_from_active_epoch
awards_from_active_epoch(st, random) ==
    AwardsOfActivity(st, random, validators_at_epoch_start(st), epoch_activity_of(st))

(***************************************************************************)
(* Macro blocks.                                                           *)
(***************************************************************************)
\* The reward of a macro-block whose service award goes to `winner`.
FullReward(winner) ==
    cfg.block_reward * (cfg.micro_blocks_in_epoch + 1)
    + (IF IsSome(winner) THEN Unwrap(winner)[2] ELSE 0)

\* The awards cw are stored and the reward of the block is checked.
CheckReward(st, block, cw) ==
    PanicUnless([ st EXCEPT !.awards = cw.awards ],
                block.block_reward = FullReward(cw.winner), "Invalid macro block reward")

\* The awards of the epoch are finalized with the activity va.
AwardsOfEpoch(st, block, va) ==
    IF va.panic /= "" THEN Panic(st, va.panic)
    ELSE IF va.err /= "" THEN Panic(st, va.err)
    ELSE CheckReward(st, block,
                     check_winners(finalize_epoch(st.awards, cfg.service_award_per_epoch,
                                                  MapPairs(va.value)),
                                   block.random))

\* The award step of register_macro_block (skipped for the genesis).
RegisterAwards(st, block) ==
    AwardsOfEpoch(st, block, epoch_activity_from_macro_block(st, block.activity_map))

\* The OutputKeys of the outputs of a macro-block.
MacroOutputKeys(block) ==
    [ i \in DOMAIN block.outputs |-> OutputKey("MacroBlock", block.epoch, 0, 0, i - 1) ]

\* MacroMetadata that records as last_block_hash the hash of the header only.
MacroMetadata_HeaderHash(st, block) ==
    [ st EXCEPT !.epoch = st.epoch + 1,
                !.offset = 0,
                !.last_block_timestamp = block.timestamp,
                !.last_block_hash = Digest([ block EXCEPT !.outputs = <<>> ]),
                !.last_macro_block_timestamp = block.timestamp,
                !.last_macro_block_random = block.random,
                !.last_macro_block_hash = Digest(block) ]

\* The "Update metadata" step of register_macro_block.
MacroMetadata(st, block) ==
    [ st EXCEPT !.epoch = st.epoch + 1,
                !.offset = 0,
                !.last_block_timestamp = block.timestamp,
                !.last_block_hash = Digest(block),
                !.last_macro_block_timestamp = block.timestamp,
                !.last_macro_block_random = block.random,
                !.last_macro_block_hash = Digest(block) ]

\* The election of the validators of the next epoch.
MacroElection(st, lsn, block) ==
    [ st EXCEPT
        !.election_result =
            MvmInsert(@, lsn, Unit,
                      select_validators_slots(
                          get_stakers_majority(st.escrow, st.epoch, cfg.min_stake_amount),
                          block.random, cfg.max_slot_count)),
        !.difficulty = block.difficulty ]

\* The "Finalize storage" step of register_macro_block.
MacroCheckpoint(st) ==
    [ st EXCEPT !.block_by_hash = MvmCheckpoint(@),
                !.output_by_hash = MvmCheckpoint(@),
                !.balance = MvmCheckpoint(@),
                !.escrow = MvmCheckpoint(@) ]

\* Blockchain::register_macro_block
register_macro_block(st, lsn, block, inputs) ==
    IF st.epoch /= block.epoch THEN Panic(st, "self.epoch == block.header.epoch")
    ELSE IF st.offset /= 0 THEN Panic(st, "self.offset() == 0")
    ELSE IF block.previous /= st.last_macro_block_hash
    THEN Panic(st, "block.header.previous == last_macro_block_hash")
    ELSE IF ~(block.timestamp > st.last_macro_block_timestamp)
    THEN Panic(st, "block.header.timestamp > last_macro_block_timestamp")
    ELSE IF ~(block.timestamp > st.last_block_timestamp)
    THEN Panic(st, "block.header.timestamp > last_block_timestamp")
    ELSE MacroCheckpoint(
             MacroElection(
                 MacroMetadata(
                     register_inputs_and_outputs(
                         IF block.epoch > 0 THEN RegisterAwards(st, block) ELSE st,
                         lsn, Digest(block), block.inputs, inputs, MacroOutputKeys(block),
                         block.outputs, block.gamma, block.block_reward),
                     block),
                 lsn, block))

\* The result of resolving input hashes: err is a storage error, panic an
\* abort, n the number of db accesses made.
Resolved(err, panic_msg, n) ==
    [ err |-> err, panic |-> panic_msg, inputs |-> <<>>, n |-> n ]

\* The number of db reads that output_by_hash(h) makes.
Reads(st, h) == IF contains_output(st, h) THEN 1 ELSE 0

RECURSIVE ResolveInputs(_, _, _, _, _)
RECURSIVE ResolveInput(_, _, _, _, _, _)
\* Resolves the input hashes from position i; the db access numbered `fail`
\* returns a storage error.  n is the number of db accesses made so far.
ResolveInputs(st, hashes, i, n, fail) ==
    IF i > Len(hashes) THEN Resolved(FALSE, "", n)
    ELSE IF Reads(st, hashes[i]) = 1 /\ n + 1 = fail THEN Resolved(TRUE, "", n + 1)
    ELSE ResolveInput(st, hashes, i, n + Reads(st, hashes[i]), fail,
                      output_by_hash(st, hashes[i]))

\* The input at position i was looked up with the result r.
ResolveInput(st, hashes, i, n, fail, r) ==
    IF r.panic /= "" THEN Resolved(FALSE, r.panic, n)
    ELSE IF ~IsSome(r.value) THEN Resolved(FALSE, "Missing output", n)
    ELSE [ ResolveInputs(st, hashes, i + 1, n, fail) EXCEPT
             !.inputs = << Unwrap(r.value) >> \o @ ]

\* push_macro_block once the inputs are resolved with the result res.
PushResolvedMacroBlock(st, block, fail, res) ==
    IF res.err THEN [ st |-> st, ret |-> "StorageError" ]
    ELSE IF res.panic /= "" THEN [ st |-> Panic(st, res.panic), ret |-> "Panic" ]
    ELSE IF res.n + 1 = fail THEN [ st |-> st, ret |-> "StorageError" ]
    ELSE Result(register_macro_block(write_block(st, MacroLSN(st.epoch), block),
                                     MacroLSN(st.epoch), block, res.inputs))

\* Blockchain::push_macro_block.  Returns the ledger and the result.
push_macro_block(st, block, fail) ==
    IF st.epoch /= block.epoch
    THEN [ st |-> Panic(st, "self.epoch == block.header.epoch"), ret |-> "Panic" ]
    ELSE IF st.offset /= 0
    THEN [ st |-> Panic(st, "self.offset() == 0"), ret |-> "Panic" ]
    ELSE PushResolvedMacroBlock(st, block, fail,
                                ResolveInputs(st, block.inputs, 1, 0, fail))

RECURSIVE CollectTxs(_)
\* The transactions of the blocks bs, in order.
CollectTxs(bs) ==
    IF bs = <<>> THEN <<>> ELSE Head(bs).transactions \o CollectTxs(Tail(bs))

\* The coinbase and the service award of a macro-block.
MacroExtraTxs(st, winner) ==
    << CoinbaseTx(cfg.block_reward, << st.epoch, -1, 0 >>) >>
    \o (IF IsSome(winner)
        THEN << ServiceAwardTx(PublicPaymentOutput(Unwrap(winner)[1], Unwrap(winner)[2],
                                                   << st.epoch, -1, 1 >>)) >>
        ELSE <<>>)

\* create_macro_block from the awards aw and the micro-blocks `taken`.
MacroBlockOfEpoch(st, view_chg, network_pkey, timestamp, random, aw, taken) ==
    IF aw.panic /= "" THEN [ panic |-> aw.panic, block |-> None ]
    ELSE IF \E i \in DOMAIN taken : taken[i].kind /= "Micro"
    THEN [ panic |-> "Expected micro block", block |-> None ]
    ELSE [ panic |-> "",
           block |-> Some(MacroBlockFromTransactions(
                              st.last_macro_block_hash, st.epoch, view_chg, network_pkey,
                              random, st.difficulty, timestamp, FullReward(aw.winner),
                              aw.activity_map,
                              MacroExtraTxs(st, aw.winner) \o CollectTxs(taken))) ]

\* The first n elements of s (Iterator::take).
Take(s, n) == SubSeq(s, 1, Min(Len(s), n))

\* Blockchain::create_macro_block
create_macro_block(st, view_chg, beneficiary_pkey, network_pkey, timestamp) ==
    IF ~is_epoch_full(st) THEN [ panic |-> "is_epoch_full", block |-> None ]
    ELSE MacroBlockOfEpoch(
             st, view_chg, network_pkey, timestamp,
             make_VRF(network_pkey, mix(st.last_macro_block_random, view_chg)),
             awards_from_active_epoch(
                 st, make_VRF(network_pkey, mix(st.last_macro_block_random, view_chg))),
             Take(blocks_starting(st, st.epoch, 0), cfg.micro_blocks_in_epoch))

\* set_view_change that keeps the proof of the view change before.
set_view_change_KeepsProof(st, new_view_change, proof) ==
    IF ~(view_change(st) < new_view_change)
    THEN Panic(st, "self.view_change() < new_view_change")
    ELSE [ st EXCEPT
             !.election_result =
                 MvmInsert(st.election_result, MicroLSN(st.epoch, st.offset), Unit,
                           [ election_result(st) EXCEPT !.view_change = new_view_change ]) ]

\* set_view_change that writes at the LSN of the last macro-block.
set_view_change_AtEpochStart(st, new_view_change, proof) ==
    IF ~(view_change(st) < new_view_change)
    THEN Panic(st, "self.view_change() < new_view_change")
    ELSE [ st EXCEPT
             !.election_result =
                 MvmInsert(st.election_result, MacroLSN(st.epoch - 1), Unit,
                           [ election_result(st) EXCEPT !.view_change = new_view_change ]),
             !.view_change_proof = Some(proof) ]

(***************************************************************************)
(* View changes.                                                           *)
(***************************************************************************)
\* Blockchain::set_view_change
set_view_change(st, new_view_change, proof) ==
    IF ~(view_change(st) < new_view_change)
    THEN Panic(st, "self.view_change() < new_view_change")
    ELSE [ st EXCEPT
             !.election_result =
                 MvmInsert(st.election_result, MicroLSN(st.epoch, st.offset), Unit,
                           [ election_result(st) EXCEPT !.view_change = new_view_change ]),
             !.view_change_proof = Some(proof) ]

\* reset_view_change that writes at the LSN of the next block.
reset_view_change_AtNextOffset(st) ==
    [ st EXCEPT
        !.election_result =
            MvmInsert(st.election_result, MicroLSN(st.epoch, st.offset + 1), Unit,
                      [ election_result(st) EXCEPT !.view_change = 0 ]),
        !.view_change_proof = None ]

\* Blockchain::reset_view_change
reset_view_change(st) ==
    [ st EXCEPT
        !.election_result =
            MvmInsert(st.election_result, MicroLSN(st.epoch, st.offset), Unit,
                      [ election_result(st) EXCEPT !.view_change = 0 ]),
        !.view_change_proof = None ]

(***************************************************************************)
(* Micro blocks.                                                           *)
(***************************************************************************)
\* RemoveCheater that writes the election result at the LSN of the next block.
RemoveCheater_AtNextOffset(st, lsn, cheater) ==
    [ st EXCEPT
        !.election_result =
            MvmInsert(st.election_result, MicroLSN(st.epoch, st.offset + 1), Unit,
                      [ election_result(st) EXCEPT
                          !.validators = SelectSeq(validators(st),
                                                   LAMBDA v : v[1] /= cheater) ]) ]

\* The SlashingTransaction arm: the cheater leaves the validators of the epoch.
RemoveCheater(st, lsn, cheater) ==
    [ st EXCEPT
        !.election_result =
            MvmInsert(st.election_result, lsn, Unit,
                      [ election_result(st) EXCEPT
                          !.validators = SelectSeq(validators(st),
                                                   LAMBDA v : v[1] /= cheater) ]) ]

\* The result of the loop over the transactions of a micro-block.
NoTxs(st, err) ==
    [ st |-> st, err |-> err, input_hashes |-> <<>>, inputs |-> <<>>,
      output_keys |-> <<>>, outputs |-> <<>>, gamma |-> 0, block_reward |-> 0 ]

\* The OutputKeys of the outputs of the transaction at position i.
MicroOutputKeys(st, tx, i) ==
    [ j \in DOMAIN tx.txouts |->
        OutputKey("MicroBlock", st.epoch, st.offset, i - 1, j - 1) ]

\* assert!(txs.insert(tx_hash, tx).is_none()): no transaction comes twice.
UniqueTx(st, txs, i) ==
    IF st.panic = "" /\ \E j \in 1 .. (i - 1) : txs[j] = txs[i]
    THEN Panic(st, "txs.insert(tx_hash, tx).is_none()")
    ELSE st

\* The match on the kind of the transaction at position i.
TxArm(st, lsn, tx) ==
    IF tx.kind = "Slashing" THEN RemoveCheater(st, lsn, tx.cheater)
    ELSE IF tx.kind = "ServiceAward" THEN Panic(st, "unreachable")
    ELSE st

\* The sums of the transaction tx with the inputs and keys, before `rest`.
AddTx(tx, inputs, keys, rest) ==
    [ st |-> rest.st,
      err |-> rest.err,
      input_hashes |-> tx.txins \o rest.input_hashes,
      inputs |-> inputs \o rest.inputs,
      output_keys |-> keys \o rest.output_keys,
      outputs |-> tx.txouts \o rest.outputs,
      gamma |-> (IF tx.kind \in {"Coinbase", "Payment"} THEN tx.gamma ELSE 0) + rest.gamma,
      block_reward |-> (IF tx.kind = "Coinbase" THEN tx.block_reward ELSE 0)
                       + rest.block_reward ]

RECURSIVE MicroTxs(_, _, _, _, _, _)
RECURSIVE MicroTx(_, _, _, _, _, _)
\* The loop of register_micro_block over the transactions, from position
\* i (tx_id = i - 1).  n counts the db accesses made so far.
MicroTxs(st, lsn, txs, i, n, fail) ==
    IF i > Len(txs) THEN NoTxs(st, FALSE)
    ELSE MicroTx(st, lsn, txs, i, fail, ResolveInputs(st, txs[i].txins, 1, n, fail))

\* The transaction at position i, its inputs resolved with the result res.
MicroTx(st, lsn, txs, i, fail, res) ==
    IF res.err THEN NoTxs(st, TRUE)
    ELSE IF res.panic /= "" THEN NoTxs(Panic(st, res.panic), FALSE)
    ELSE AddTx(txs[i], res.inputs, MicroOutputKeys(st, txs[i], i),
               MicroTxs(UniqueTx(TxArm(st, lsn, txs[i]), txs, i), lsn, txs, i + 1,
                        res.n, fail))

RECURSIVE MarkSkipped_NextOffset(_, _, _, _)
\* MarkSkipped that records the offset after the block.
MarkSkipped_NextOffset(st, lsn, v, upto) ==
    IF v >= upto THEN st
    ELSE MarkSkipped_NextOffset(
             [ st EXCEPT !.epoch_activity =
                            MvmInsert(st.epoch_activity, lsn,
                                      select_leader(election_result(st), v),
                                      FailedAt(st.epoch, st.offset + 1)) ],
             lsn, v + 1, upto)

RECURSIVE MarkSkipped_KeepsFailed(_, _, _, _)
\* MarkSkipped that leaves the entry of a validator that failed before.
MarkSkipped_KeepsFailed(st, lsn, v, upto) ==
    IF v >= upto THEN st
    ELSE IF /\ IsSome(MvmGet(st.epoch_activity, select_leader(election_result(st), v)))
            /\ Unwrap(MvmGet(st.epoch_activity, select_leader(election_result(st), v))).kind = "FailedAt"
    THEN MarkSkipped_KeepsFailed(st, lsn, v + 1, upto)
    ELSE MarkSkipped_KeepsFailed(
             [ st EXCEPT !.epoch_activity =
                            MvmInsert(st.epoch_activity, lsn,
                                      select_leader(election_result(st), v),
                                      FailedAt(st.epoch, st.offset)) ],
             lsn, v + 1, upto)

RECURSIVE MarkSkipped(_, _, _, _)
\* Set skipped validators to inactive: view changes v .. view_change - 1.
MarkSkipped(st, lsn, v, upto) ==
    IF v >= upto THEN st
    ELSE MarkSkipped(
             [ st EXCEPT !.epoch_activity =
                            MvmInsert(st.epoch_activity, lsn,
                                      select_leader(election_result(st), v),
                                      FailedAt(st.epoch, st.offset)) ],
             lsn, v + 1, upto)

\* The leader of the block is active unless its activity is recorded.
MarkLeader(st, lsn, leader) ==
    IF IsSome(MvmGet(st.epoch_activity, leader)) THEN st
    ELSE [ st EXCEPT !.epoch_activity = MvmInsert(@, lsn, leader, Active) ]

\* The leader of the block, after the skipped validators.
MarkActive(st, lsn, block) ==
    MarkLeader(st, lsn, select_leader(election_result(st), block.view_change))

\* The service awards step of register_micro_block.
UpdateActivity(st, lsn, block) ==
    IF validators(st) = <<>> THEN Panic(st, "select_leader")
    ELSE MarkActive(MarkSkipped(st, lsn, 0, block.view_change), lsn, block)

\* MicroMetadata that keeps the random of the previous block.
MicroMetadata_KeepsRandom(st, lsn, block) ==
    [ st EXCEPT
        !.last_block_timestamp = block.timestamp,
        !.last_block_hash = Digest(block),
        !.offset = st.offset + 1,
        !.election_result =
            MvmInsert(st.election_result, lsn, Unit,
                      [ election_result(st) EXCEPT !.view_change = 0 ]) ]

\* MicroMetadata that clones the election result as it was before the block.
MicroMetadata_StaleElection(st, lsn, block) ==
    [ st EXCEPT
        !.last_block_timestamp = block.timestamp,
        !.last_block_hash = Digest(block),
        !.offset = st.offset + 1,
        !.election_result =
            MvmInsert(st.election_result, lsn, Unit,
                      [ Unwrap(election_result_by_offset(st, st.offset).value)
                          EXCEPT !.view_change = 0, !.random = block.random ]) ]

\* MicroMetadata that leaves last_block_hash at the previous block.
MicroMetadata_KeepsHash(st, lsn, block) ==
    [ st EXCEPT
        !.last_block_timestamp = block.timestamp,
        !.offset = st.offset + 1,
        !.election_result =
            MvmInsert(st.election_result, lsn, Unit,
                      [ election_result(st) EXCEPT !.view_change = 0,
                                                   !.random = block.random ]) ]

\* The metadata step of register_micro_block.
MicroMetadata(st, lsn, block) ==
    [ st EXCEPT
        !.last_block_timestamp = block.timestamp,
        !.last_block_hash = Digest(block),
        !.offset = st.offset + 1,
        !.election_result =
            MvmInsert(st.election_result, lsn, Unit,
                      [ election_result(st) EXCEPT !.view_change = 0,
                                                   !.random = block.random ]) ]

\* register_micro_block after the loop over the transactions ended in acc.
RegisterTxs(acc, lsn, block) ==
    IF acc.err THEN [ st |-> acc.st, ret |-> "StorageError" ]
    ELSE IF acc.st.panic /= "" THEN [ st |-> acc.st, ret |-> "Panic" ]
    ELSE Result(MicroMetadata(
                    register_inputs_and_outputs(
                        UpdateActivity(acc.st, lsn, block), lsn, Digest(block),
                        acc.input_hashes, acc.inputs, acc.output_keys, acc.outputs,
                        acc.gamma, acc.block_reward),
                    lsn, block))

\* Blockchain::register_micro_block.  n is the number of db accesses made
\* before the call.
register_micro_block(st, lsn, block, n, fail) ==
    IF st.epoch /= block.epoch
    THEN [ st |-> Panic(st, "self.epoch == block.header.epoch"), ret |-> "Panic" ]
    ELSE IF st.offset /= block.offset
    THEN [ st |-> Panic(st, "self.offset == block.header.offset"), ret |-> "Panic" ]
    ELSE IF block.previous /= st.last_block_hash
    THEN [ st |-> Panic(st, "block.header.previous == last_block_hash"), ret |-> "Panic" ]
    ELSE IF ~(block.timestamp > st.last_block_timestamp)
    THEN [ st |-> Panic(st, "block.header.timestamp > last_block_timestamp"),
           ret |-> "Panic" ]
    ELSE IF is_epoch_full(st)
    THEN [ st |-> Panic(st, "!self.is_epoch_full()"), ret |-> "Panic" ]
    ELSE RegisterTxs(MicroTxs(st, lsn, block.transactions, 1, n, fail), lsn, block)

\* Blockchain::push_micro_block.  The write of the block is db access 1.
push_micro_block(st, block, fail) ==
    IF st.epoch /= block.epoch
    THEN [ st |-> Panic(st, "self.epoch == block.header.epoch"), ret |-> "Panic" ]
    ELSE IF st.offset /= block.offset
    THEN [ st |-> Panic(st, "self.offset == block.header.offset"), ret |-> "Panic" ]
    ELSE IF fail = 1 THEN [ st |-> st, ret |-> "StorageError" ]
    ELSE register_micro_block(write_block(st, MicroLSN(st.epoch, st.offset), block),
                              MicroLSN(st.epoch, st.offset), block, 1, fail)

\* The transactions that pop_micro_block hands back to the mempool.
RemovedTxs(txs) == SelectSeq(txs, LAMBDA tx : tx.kind \in {"Payment", "Restake"})

\* RollbackIndexes with the rollback of the escrow forgotten.
RollbackIndexes_SkipEscrow(st, lsn) ==
    [ st EXCEPT
        !.block_by_hash = MvmRollbackToLsn(st.block_by_hash, lsn),
        !.output_by_hash = MvmRollbackToLsn(st.output_by_hash, lsn),
        !.balance = MvmRollbackToLsn(st.balance, lsn),
        !.epoch_activity = MvmRollbackToLsn(st.epoch_activity, lsn),
        !.election_result = MvmRollbackToLsn(st.election_result, lsn) ]

\* The "Revert metadata" step of pop_micro_block: every index is rolled
\* back to the LSN of the block before the popped one.
RollbackIndexes(st, lsn) ==
    [ st EXCEPT
        !.block_by_hash = MvmRollbackToLsn(st.block_by_hash, lsn),
        !.output_by_hash = MvmRollbackToLsn(st.output_by_hash, lsn),
        !.balance = MvmRollbackToLsn(st.balance, lsn),
        !.escrow = MvmRollbackToLsn(st.escrow, lsn),
        !.epoch_activity = MvmRollbackToLsn(st.epoch_activity, lsn),
        !.election_result = MvmRollbackToLsn(st.election_result, lsn) ]

\* A call of pop_micro_block that ends with `ret` and hands nothing back.
NoPop(st, ret) ==
    [ st |-> st, ret |-> ret, pruned |-> <<>>, created |-> <<>>, removed |-> <<>> ]

\* The assertions on the LSNs of the indexes after the rollback to lsn.
RolledBack(st, lsn) ==
    /\ MvmCurrentLsn(st.block_by_hash) = lsn
    /\ MvmCurrentLsn(st.election_result) = lsn
    /\ LsnLeq(MvmCurrentLsn(st.epoch_activity), lsn)
    /\ LsnLeq(MvmCurrentLsn(st.output_by_hash), lsn)
    /\ LsnLeq(MvmCurrentLsn(st.balance), lsn)
    /\ LsnLeq(MvmCurrentLsn(st.escrow), lsn)

\* DeleteBlock that leaves the popped block in the log.
DeleteBlock_Keeps(st) == st

\* DeleteBlock that removes the block before the popped one.
DeleteBlock_Previous(st) ==
    [ st EXCEPT !.database = MapDel(@, block_key(LsnBefore(st, st.offset - 1))) ]

\* The popped block leaves the log.
DeleteBlock(st) ==
    [ st EXCEPT !.database = MapDel(@, block_key(MicroLSN(st.epoch, st.offset - 1))) ]

\* RevertMetadata that leaves the timestamp of the popped block.
RevertMetadata_KeepsTimestamp(st, prev) ==
    reset_view_change([ st EXCEPT !.offset = st.offset - 1,
                                  !.last_block_hash = Digest(prev) ])

\* RevertMetadata that also takes the timestamp of `prev` for that of the
\* last macro-block.
RevertMetadata_MacroTimestamp(st, prev) ==
    reset_view_change([ st EXCEPT !.offset = st.offset - 1,
                                  !.last_block_hash = Digest(prev),
                                  !.last_block_timestamp = prev.timestamp,
                                  !.last_macro_block_timestamp = prev.timestamp ])

\* The metadata of the ledger goes back to the block `prev`.
RevertMetadata(st, prev) ==
    reset_view_change([ st EXCEPT !.offset = st.offset - 1,
                                  !.last_block_hash = Digest(prev),
                                  !.last_block_timestamp = prev.timestamp ])

\* PopRestored that hands back the two lists of outputs in the other order.
PopRestored_Swapped(st, block, res) ==
    IF res.err THEN NoPop(st, "StorageError")
    ELSE IF res.panic /= "" THEN NoPop(Panic(st, res.panic), "Panic")
    ELSE [ st |-> st, ret |-> "Ok",
           pruned |-> res.inputs,
           created |-> FlatTxouts(block.transactions),
           removed |-> RemovedTxs(block.transactions) ]

\* The inputs of the popped block were looked up with the result res.
PopRestored(st, block, res) ==
    IF res.err THEN NoPop(st, "StorageError")
    ELSE IF res.panic /= "" THEN NoPop(Panic(st, res.panic), "Panic")
    ELSE [ st |-> st, ret |-> "Ok",
           pruned |-> FlatTxouts(block.transactions),
           created |-> res.inputs,
           removed |-> RemovedTxs(block.transactions) ]

\* The inputs of the popped block are restored from the log.
PopReverted(st, block, fail) ==
    PopRestored(st, block, ResolveInputs(st, FlatTxins(block.transactions), 1, 3, fail))

\* The indexes were rolled back to lsn, the LSN of the block `prev`.
PopRolledBack(st, lsn, block, prev, fail) ==
    IF ~RolledBack(st, lsn) THEN NoPop(Panic(st, "current_lsn after rollback"), "Panic")
    ELSE PopReverted(RevertMetadata(st, prev), block, fail)

\* pop_micro_block once the popped block and the block before it are read.
PopBlock(st, fail, popped, lsn, prev) ==
    IF ~IsSome(popped) \/ Unwrap(popped).kind /= "Micro"
    THEN NoPop(Panic(st, "Block must exists"), "Panic")
    ELSE IF fail = 2 THEN NoPop(st, "StorageError")
    ELSE IF ~IsSome(prev) THEN NoPop(Panic(st, "Block must exists"), "Panic")
    ELSE IF fail = 3 THEN NoPop(st, "StorageError")
    ELSE PopRolledBack(RollbackIndexes(DeleteBlock(st), lsn), lsn, Unwrap(popped),
                       Unwrap(prev), fail)

\* Blockchain::pop_micro_block.  The db accesses are: 1 the popped block,
\* 2 the block before it, 3 the delete, 4.. the restored inputs.
pop_micro_block(st, fail) ==
    IF st.epoch = 0 THEN NoPop(Panic(st, "doesn't work for genesis"), "Panic")
    ELSE IF st.offset = 0
    THEN NoPop(Panic(st, "attempt to revert the macro block"), "Panic")
    ELSE IF fail = 1 THEN NoPop(st, "StorageError")
    ELSE PopBlock(st, fail, DbGet(st, MicroLSN(st.epoch, st.offset - 1)),
                  LsnBefore(st, st.offset - 1), DbGet(st, LsnBefore(st, st.offset - 1)))

(***************************************************************************)
(* Construction and recovery.                                              *)
(***************************************************************************)
\* The macro-block is registered with the inputs resolved in res.
RecoverMacroBlock(st, block, res) ==
    IF res.panic /= "" THEN Panic(st, res.panic)
    ELSE register_macro_block(st, MacroLSN(block.epoch), block, res.inputs)

\* recover_block that replays the macro-blocks only.
recover_block_MacroOnly(st, block) ==
    IF block.kind = "Micro" THEN st
    ELSE RecoverMacroBlock(st, block, ResolveInputs(st, block.inputs, 1, 0, 0))

\* Blockchain::recover_block (force_check = false).  The result of
\* register_micro_block is dropped.
recover_block(st, block) ==
    IF block.kind = "Micro"
    THEN register_micro_block(st, MicroLSN(block.epoch, block.offset), block, 0, 0).st
    ELSE RecoverMacroBlock(st, block, ResolveInputs(st, block.inputs, 1, 0, 0))

RECURSIVE RecoverBlocks(_, _)
RecoverBlocks(st, bs) ==
    IF bs = <<>> \/ st.panic /= "" THEN st
    ELSE RecoverBlocks(recover_block(st, Head(bs)), Tail(bs))

\* RecoverAfterGenesis that does not compare the first block with the genesis.
RecoverAfterGenesis_Unchecked(st, genesis, rest) ==
    IF st.panic /= "" THEN [ st |-> st, ret |-> "Panic" ]
    ELSE Result(RecoverBlocks(st, rest))

\* recover after the first block of the log, which must be the genesis.
RecoverAfterGenesis(st, genesis, rest) ==
    IF st.panic /= "" THEN [ st |-> st, ret |-> "Panic" ]
    ELSE IF Digest(genesis) /= st.last_block_hash
    THEN [ st |-> st, ret |-> "IncompatibleGenesis" ]
    ELSE Result(RecoverBlocks(st, rest))

\* RecoverStored that leaves an empty log empty.
RecoverStored_SkipsGenesis(st, genesis, stored) ==
    IF stored = <<>> THEN [ st |-> st, ret |-> "Ok" ]
    ELSE RecoverAfterGenesis(recover_block(st, Head(stored)), genesis, Tail(stored))

\* recover on the blocks `stored` of the log.
RecoverStored(st, genesis, stored) ==
    IF stored = <<>> THEN push_macro_block(st, genesis, 0)
    ELSE RecoverAfterGenesis(recover_block(st, Head(stored)), genesis, Tail(stored))

\* Blockchain::recover
recover(st, genesis) == RecoverStored(st, genesis, blocks(st))

\* Blockchain::recover_block on a storage whose db access numbered `fail`
\* of the call returns an error: the `?` of the macro-block arm hands the
\* error on, the result of register_micro_block is dropped (let _ =).
RecoverBlockOn(st, block, fail) ==
    IF block.kind = "Micro"
    THEN Result(register_micro_block(st, MicroLSN(block.epoch, block.offset), block, 0,
                                     fail).st)
    ELSE IF ResolveInputs(st, block.inputs, 1, 0, fail).err
    THEN [ st |-> st, ret |-> "StorageError" ]
    ELSE Result(RecoverMacroBlock(st, block, ResolveInputs(st, block.inputs, 1, 0, fail)))

RECURSIVE RecoverBlocksOn(_, _, _, _, _)
\* The loop of recover over the blocks bs from position i; the storage
\* fails while the block at position `at` is applied.
RecoverBlocksOn(r, bs, i, at, fail) ==
    IF i > Len(bs) \/ r.ret /= "Ok" THEN r
    ELSE RecoverBlocksOn(RecoverBlockOn(r.st, bs[i], IF i = at THEN fail ELSE 0),
                         bs, i + 1, at, fail)

\* recover after the genesis was applied with the result r.
RecoverAfterGenesisOn(r, genesis, bs, at, fail) ==
    IF r.ret /= "Ok" THEN r
    ELSE IF Digest(genesis) /= r.st.last_block_hash
    THEN [ st |-> r.st, ret |-> "IncompatibleGenesis" ]
    ELSE RecoverBlocksOn(r, bs, 2, at, fail)

\* Blockchain::new on a non-empty log, the storage failing at access `fail`
\* of the block at position `at`.
NewOn(database, genesis, at, fail) ==
    RecoverAfterGenesisOn(
        RecoverBlockOn(Blank(database, genesis.difficulty),
                       blocks(Blank(database, genesis.difficulty))[1],
                       IF at = 1 THEN fail ELSE 0),
        genesis, blocks(Blank(database, genesis.difficulty)), at, fail)

\* Blockchain::new on the log `database`.
new(database, genesis) == recover(Blank(database, genesis.difficulty), genesis)

(***************************************************************************)
(* The environment: the genesis block and the blocks that consensus hands  *)
(* to the ledger.  Every block is one the external validator accepts.      *)
(***************************************************************************)
GenesisOutputs ==
    << StakeOutput(1, AccountOf(1), cfg.min_stake_amount, << 0, -1, 0 >>),
       StakeOutput(2, AccountOf(2), cfg.min_stake_amount, << 0, -1, 1 >>),
       PaymentOutput(Payer, cfg.min_stake_amount, << 0, -1, 2 >>) >>

Genesis ==
    MacroBlock(0, Digest("genesis"), 1, 0, 1, 1, 1,
               3 * cfg.min_stake_amount, BitVectorNew, -1, <<>>, GenesisOutputs)

\* The values of a set of options.
Values(opts) == { Unwrap(o) : o \in { x \in opts : IsSome(x) } }

\* The unspent outputs, resolved through the log.
UnspentOutputs(st) == Values({ output_by_hash(st, h).value : h \in unspent(st) })

\* A stake can be spent once its lock expired, and a validator of the
\* epoch keeps at least one stake.
Spendable(st, s) ==
    LET key == << s.validator, Digest(s) >>
    IN /\ key \in MvmKeys(st.escrow)
       /\ st.escrow.current[key].active_until_epoch <= st.epoch

\* The oldest of a non-empty set of outputs (serial numbers are distinct).
Oldest(outs) ==
    CHOOSE u \in outs : \A w \in outs : w = u \/ BytesLess(u.serno, w.serno)

\* The transactions (other than the coinbase) the leader of view change vc
\* may put at position tx_id of the next micro-block: the oldest coin is
\* paid or staked, the oldest spendable stake is withdrawn or renewed, or
\* another validator is slashed.
\* The coin u is paid to the payer or staked to the least validator.
CoinTxs(u, serno) ==
    { PaymentTx(u, PaymentOutput(Payer, u.amount, serno)) }
    \cup { PaymentTx(u, StakeOutput(v, AccountOf(v), u.amount, serno)) :
             v \in { w \in Validators : /\ u.amount >= cfg.min_stake_amount
                                          /\ \A x \in Validators : w <= x } }

\* The stake s is withdrawn if its validator keeps another one, else renewed.
StakeTxs(st, s, serno) ==
    IF Cardinality(EscrowValidatorKeys(st.escrow, s.validator)) > 1
    THEN { PaymentTx(s, PaymentOutput(s.recipient, s.amount, serno)) }
    ELSE { RestakeTx(s, StakeOutput(s.validator, s.recipient, s.amount, serno)) }

\* The validators of the epoch other than the leader are slashed.
SlashingTxs(st, leader) ==
    { SlashingTx(v) : v \in { c \in Validators :
                                /\ c /= leader
                                /\ \E i \in DOMAIN validators(st) :
                                      validators(st)[i][1] = c } }

\* The transactions that spend the oldest of the coins and of the stakes.
SpendingTxs(st, coins, stakes, serno) ==
    (IF coins = {} THEN {} ELSE CoinTxs(Oldest(coins), serno))
    \cup (IF stakes = {} THEN {} ELSE StakeTxs(st, Oldest(stakes), serno))

\* The spending transactions over the unspent outputs `outs`.
TxsOver(st, outs, serno) ==
    SpendingTxs(st, { u \in outs : u.kind /= "Stake" },
                { u \in outs : u.kind = "Stake" /\ Spendable(st, u) }, serno)

ExtraTxs(st, vc, tx_id) ==
    TxsOver(st, UnspentOutputs(st), << st.epoch, st.offset, tx_id >>)
    \cup SlashingTxs(st, select_leader(election_result(st), vc))

\* The transaction lists of the next micro-block of view change vc.
TxLists(st, vc) ==
    { <<>> } \cup { << CoinbaseTx(cfg.block_reward, << st.epoch, st.offset, 0 >>), x >> :
                      x \in ExtraTxs(st, vc, 1) }

\* The micro-block of the leader of view change vc with the transactions txs.
BlockOfLeader(st, vc, leader, txs) ==
    MicroBlock(st.epoch, st.offset, st.last_block_hash, st.last_block_timestamp + 1,
               vc, leader, make_VRF(leader, mix(last_random(st), vc)), txs)

NextMicroBlock(st, vc, txs) ==
    BlockOfLeader(st, vc, select_leader(election_result(st), vc), txs)

\* The sums of a macro-block satisfy the monetary balance of a block.
BalancedWith(block, res) ==
    /\ res.panic = ""
    /\ BalanceHolds(block.block_reward, SumCommitments(res.inputs),
                    SumCommitments(block.outputs), block.gamma)

MacroBlockBalanced(st, block) ==
    BalancedWith(block, ResolveInputs(st, block.inputs, 1, 0, 0))

(***************************************************************************)
(* The transaction generator (src/generator.rs).  It talks to the wallet   *)
(* over channels: a request returns a one-shot receiver of the response,   *)
(* subscribe() a stream of notifications.  The record g holds the fields   *)
(* of Generator, the last request sent (request), the number of payment    *)
(* requests sent so far (sent) and what the receiver held by the state     *)
(* yields when polled (rx): NotReady, a message, or the end of the channel *)
(* (Canceled for a one-shot receiver, also once its value was taken;       *)
(* Closed for the stream).                                                 *)
(***************************************************************************)
MIN_BALANCE == 10000

Msg(kind, bal) == [ kind |-> kind, balance |-> bal ]
NotReady == Msg("NotReady", 0)

\* WalletResponse, by variant; KeysInfo stands for the variants the
\* generator names nowhere.
WalletResponses ==
    { Msg("BalanceInfo", b) : b \in { MIN_BALANCE - 1, MIN_BALANCE } }
    \cup { Msg(k, 0) : k \in { "TransactionCreated", "ValueShuffleStarted",
                                "TransactionCommitted", "Error", "KeysInfo" } }

\* WalletNotification, by variant.
WalletNotifications ==
    { Msg("BalanceChanged", b) : b \in { MIN_BALANCE - 1, MIN_BALANCE } }
    \cup { Msg("MessageReceived", 0) }

GeneratorModes == { "Regular", "ValueShuffle" }

\* self.wallet.request(request)
wallet_request(g, request) ==
    [ g EXCEPT !.request = request, !.rx = NotReady,
               !.sent = IF request \in { "Payment", "SecurePayment" } THEN @ + 1 ELSE @ ]

\* self.wallet.subscribe()
wallet_subscribe(g) == [ g EXCEPT !.request = "subscribe", !.rx = NotReady ]

GeneratorAborts(g, msg) == [ g EXCEPT !.panic = msg ]

Generator_new(mode, with_delay) ==
    [ timeout |-> with_delay, state |-> "NotInited", mode |-> mode,
      request |-> "BalanceInfo", rx |-> NotReady, sent |-> 0, panic |-> "" ]

handle_wait_creation(g, response) ==
    IF \/ response.kind = "TransactionCreated" /\ g.mode = "Regular"
       \/ response.kind = "ValueShuffleStarted" /\ g.mode = "ValueShuffle"
    THEN [ wallet_request(g, "WaitForCommit") EXCEPT !.state = "WaitForConfirmation" ]
    ELSE IF response.kind = "Error"
    THEN [ wallet_request(g, "BalanceInfo") EXCEPT !.state = "NotInited" ]
    ELSE g

handle_wait_confirm(g, response) ==
    IF response.kind = "TransactionCommitted"
    THEN [ g EXCEPT !.state = "CreateNew" ]
    ELSE IF response.kind = "Error"
    THEN [ wallet_request(g, "BalanceInfo") EXCEPT !.state = "NotInited" ]
    ELSE g

try_init(g, bal) ==
    IF bal < MIN_BALANCE
    THEN [ wallet_subscribe(g) EXCEPT !.state = "WaitForBalance" ]
    ELSE [ g EXCEPT !.state = "CreateNew" ]

handle_wait_init(g, info) ==
    IF info.kind = "BalanceInfo"
    THEN try_init(g, info.balance)
    ELSE IF info.kind = "Error"
    THEN [ wallet_request(g, "BalanceInfo") EXCEPT !.state = "NotInited" ]
    ELSE g

handle_wait_for_balance(g, info) ==
    IF info.kind = "BalanceChanged" THEN try_init(g, info.balance) ELSE g

\* password: input::read_password found the password.
generate_tx(g, password) ==
    IF g.state /= "CreateNew"
    THEN GeneratorAborts(g, "assertion failed: CreateNew")
    ELSE IF ~password
    THEN GeneratorAborts(g, "Failed to read password")
    ELSE [ wallet_request(g, IF g.mode = "ValueShuffle" THEN "SecurePayment" ELSE "Payment")
             EXCEPT !.state = "WaitForWallet" ]

\* The value of a one-shot receiver is taken: polled again it is Canceled.
TakeResponse(g, state) == [ g EXCEPT !.state = state, !.rx = Msg("Canceled", 0) ]

\* The stream yielded its notification.
TakeNotification(g) == [ g EXCEPT !.rx = NotReady ]

RECURSIVE PollLoop(_, _)
\* The loop of poll().
PollLoop(g, password) ==
    IF g.panic /= "" THEN g
    ELSE IF g.state = "CreateNew" THEN PollLoop(generate_tx(g, password), password)
    ELSE IF g.rx = NotReady THEN g
    ELSE IF g.state = "WaitForWallet"
    THEN IF g.rx \in WalletResponses
         THEN PollLoop(handle_wait_creation(TakeResponse(g, "CreateNew"), g.rx), password)
         ELSE GeneratorAborts(g, "Wallet disconnected.")
    ELSE IF g.state = "WaitForConfirmation"
    THEN IF g.rx \in WalletResponses
         THEN PollLoop(handle_wait_confirm(TakeResponse(g, "CreateNew"), g.rx), password)
         ELSE GeneratorAborts(g, "Wallet disconnected.")
    ELSE IF g.state = "NotInited"
    THEN IF g.rx \in WalletResponses
         THEN PollLoop(handle_wait_init(TakeResponse(g, "NotInited"), g.rx), password)
         ELSE GeneratorAborts(g, "Node disconnected.")
    ELSE IF g.rx \in WalletNotifications
         THEN PollLoop(handle_wait_for_balance(TakeNotification(g), g.rx), password)
         ELSE GeneratorAborts(g, "Node disconnected.")

\* Future::poll; timer is what the delay yields when polled.
poll(g, timer, password) ==
    IF g.timeout /\ timer = "NotReady" THEN g
    ELSE IF g.timeout /\ timer = "Err" THEN GeneratorAborts(g, "failed to poll timer")
    ELSE PollLoop([ g EXCEPT !.timeout = FALSE ], password)

(***************************************************************************)
(* The wallet (wallet/src/lib.rs).                                         *)
(***************************************************************************)
\* i64 of the wallet: the model keeps the wrap-around of the type on a
\* narrow word, -(I64_MAX + 1) .. I64_MAX.
I64_MAX == 7

\* The value of x in the word: x modulo 2^w, signed.
Wrapped(x) == ((x + 3 * (I64_MAX + 1)) % (2 * (I64_MAX + 1))) - (I64_MAX + 1)

\* Wallet::new; pkey is the key of the wallet.  overflow_checks is the
\* build: an arithmetic overflow aborts with it and wraps without it.
\* notifications is what the last on_outputs_changed returned.
Wallet_new(pkey, overflow_checks) ==
    [ pkey |-> pkey, unspent |-> EmptyMap, unspent_stakes |-> EmptyMap, balance |-> 0,
      panic |-> "", overflow_checks |-> overflow_checks, notifications |-> <<>> ]

WalletAborts(w, msg) == IF w.panic = "" THEN [ w EXCEPT !.panic = msg ] ELSE w

\* Output of the wallet's blockchain: PaymentOutput, DataOutput or
\* StakeOutput with the amount its payload (or the stake) carries.
WalletOutput(kind, recipient, amount, serno) ==
    [ kind |-> kind, recipient |-> recipient, amount |-> amount, serno |-> serno ]

\* o.decrypt_payload(&self.skey) is Ok.
decrypt_payload(w, o) == o.recipient = w.pkey

\* self.balance += amount, self.balance -= amount: x is the exact result.
SetBalance(w, x) ==
    IF x = Wrapped(x) THEN [ w EXCEPT !.balance = x ]
    ELSE IF w.overflow_checks THEN WalletAborts(w, "attempt to add with overflow")
    ELSE [ w EXCEPT !.balance = Wrapped(x) ]

WalletAssert(w, cond, msg) == IF cond THEN w ELSE WalletAborts(w, msg)

on_output_created(w, o) ==
    IF w.panic /= "" \/ ~decrypt_payload(w, o)
    THEN [ w |-> w, notification |-> None ]
    ELSE IF o.kind = "Payment"
    THEN [ w |-> IF Digest(o) \in DOMAIN w.unspent
                 THEN WalletAborts([ w EXCEPT !.unspent = MapPut(@, Digest(o), << o, o.amount >>) ],
                                   "assertion failed: missing.is_none()")
                 ELSE IF o.amount < 0
                 THEN WalletAborts([ w EXCEPT !.unspent = MapPut(@, Digest(o), << o, o.amount >>) ],
                                   "assertion failed: amount >= 0")
                 ELSE SetBalance([ w EXCEPT !.unspent = MapPut(@, Digest(o), << o, o.amount >>) ],
                                 w.balance + o.amount),
           notification |-> None ]
    ELSE IF o.kind = "Data"
    THEN [ w |-> w, notification |-> Some(Msg("MessageReceived", 0)) ]
    ELSE [ w |-> WalletAssert([ w EXCEPT !.unspent_stakes = MapPut(@, Digest(o), o) ],
                              Digest(o) \notin DOMAIN w.unspent_stakes,
                              "assertion failed: missing.is_none()"),
           notification |-> None ]

\* assert!(self.balance >= 0) after the subtraction.
BalanceNotNegative(w) ==
    WalletAssert(w, w.panic /= "" \/ w.balance >= 0, "assertion failed: self.balance >= 0")

on_output_pruned(w, o) ==
    IF w.panic /= "" \/ ~decrypt_payload(w, o) THEN w
    ELSE IF o.kind = "Payment"
    THEN IF Digest(o) \notin DOMAIN w.unspent
         THEN WalletAborts(w, "assertion failed: exists.is_some()")
         ELSE BalanceNotNegative(SetBalance([ w EXCEPT !.unspent = MapDel(@, Digest(o)) ],
                                            w.balance - o.amount))
    ELSE IF o.kind = "Data" THEN w
    ELSE WalletAssert([ w EXCEPT !.unspent_stakes = MapDel(@, Digest(o)) ],
                      Digest(o) \in DOMAIN w.unspent_stakes,
                      "assertion failed: exists.is_some()")

RECURSIVE PruneInputs(_, _)
\* for input in inputs { self.on_output_pruned(input); }
PruneInputs(w, ins) ==
    IF ins = <<>> THEN w ELSE PruneInputs(on_output_pruned(w, Head(ins)), Tail(ins))

\* notifications.push(notification) if the output made one.
Notified(r, c) ==
    [ w |-> c.w,
      notifications |-> IF IsSome(c.notification)
                        THEN Append(r.notifications, Unwrap(c.notification))
                        ELSE r.notifications ]

RECURSIVE CreateOutputs(_, _)
\* for output in outputs { ... self.on_output_created(output) ... }
CreateOutputs(r, outs) ==
    IF outs = <<>> THEN r
    ELSE CreateOutputs(Notified(r, on_output_created(r.w, Head(outs))), Tail(outs))

\* if saved_balance != self.balance { notifications.push(BalanceChanged) }
NotifyBalance(saved_balance, r) ==
    IF r.w.panic = "" /\ saved_balance /= r.w.balance
    THEN [ r EXCEPT !.notifications = Append(@, Msg("BalanceChanged", r.w.balance)) ]
    ELSE r

\* The wallet after the call, with the notifications the call returned.
on_outputs_changed(w, ins, outs) ==
    NotifyBalance(w.balance,
                  CreateOutputs([ w |-> PruneInputs(w, ins), notifications |-> <<>> ], outs))

(***************************************************************************)
(* The state machine.                                                      *)
(***************************************************************************)
VARIABLES
    database,                   \* the block log: key -> block
    block_by_hash,              \* multi-versioned index block hash -> LSN
    output_by_hash_idx,         \* multi-versioned index UTXO hash -> OutputKey
    balance_map,                \* multi-versioned global monetary balance
    escrow,                     \* the stakes
    difficulty,                 \* VDF difficulty
    epoch,                      \* number of macro-blocks applied
    offset,                     \* number of micro-blocks of the epoch applied
    election_result_list,       \* multi-versioned election result
    view_change_proof,          \* proof of the last view change, if any
    last_macro_block_timestamp,
    last_macro_block_hash,
    last_macro_block_random,
    last_block_timestamp,
    last_block_hash,
    awards,                     \* service awards
    epoch_activity,             \* multi-versioned activity of the validators
    panic,                      \* message of the abort, "" while running
    proposal,                   \* the macro-block proposed for the epoch, if any
    ret,                        \* the result of the last call
    generator,                  \* the transaction generator of the node
    wallet                      \* the wallet of the node

vars ==
    << database, block_by_hash, output_by_hash_idx, balance_map, escrow, difficulty,
       epoch, offset, election_result_list, view_change_proof,
       last_macro_block_timestamp, last_macro_block_hash, last_macro_block_random,
       last_block_timestamp, last_block_hash, awards, epoch_activity, panic,
       proposal, ret, generator, wallet >>

\* The variables of the ledger and of its caller.
ledger_vars ==
    << database, block_by_hash, output_by_hash_idx, balance_map, escrow, difficulty,
       epoch, offset, election_result_list, view_change_proof,
       last_macro_block_timestamp, last_macro_block_hash, last_macro_block_random,
       last_block_timestamp, last_block_hash, awards, epoch_activity, panic,
       proposal, ret >>

\* The ledger made of the current values of the variables.
Self ==
    [ database |-> database,
      block_by_hash |-> block_by_hash,
      output_by_hash |-> output_by_hash_idx,
      balance |-> balance_map,
      escrow |-> escrow,
      difficulty |-> difficulty,
      epoch |-> epoch,
      offset |-> offset,
      election_result |-> election_result_list,
      view_change_proof |-> view_change_proof,
      last_macro_block_timestamp |-> last_macro_block_timestamp,
      last_macro_block_hash |-> last_macro_block_hash,
      last_macro_block_random |-> last_macro_block_random,
      last_block_timestamp |-> last_block_timestamp,
      last_block_hash |-> last_block_hash,
      awards |-> awards,
      epoch_activity |-> epoch_activity,
      panic |-> panic ]

\* The next state holds the ledger st.
Install(st) ==
    /\ database' = st.database
    /\ block_by_hash' = st.block_by_hash
    /\ output_by_hash_idx' = st.output_by_hash
    /\ balance_map' = st.balance
    /\ escrow' = st.escrow
    /\ difficulty' = st.difficulty
    /\ epoch' = st.epoch
    /\ offset' = st.offset
    /\ election_result_list' = st.election_result
    /\ view_change_proof' = st.view_change_proof
    /\ last_macro_block_timestamp' = st.last_macro_block_timestamp
    /\ last_macro_block_hash' = st.last_macro_block_hash
    /\ last_macro_block_random' = st.last_macro_block_random
    /\ last_block_timestamp' = st.last_block_timestamp
    /\ last_block_hash' = st.last_block_hash
    /\ awards' = st.awards
    /\ epoch_activity' = st.epoch_activity
    /\ panic' = st.panic
    /\ UNCHANGED << generator, wallet >>

\* A call returns the ledger r.st and the result r.ret.
Call(r) == Install(r.st) /\ ret' = r.ret

\* The ledger opened on an empty directory with the genesis block.
Opened(r) ==
    /\ database = r.st.database
    /\ block_by_hash = r.st.block_by_hash
    /\ output_by_hash_idx = r.st.output_by_hash
    /\ balance_map = r.st.balance
    /\ escrow = r.st.escrow
    /\ difficulty = r.st.difficulty
    /\ epoch = r.st.epoch
    /\ offset = r.st.offset
    /\ election_result_list = r.st.election_result
    /\ view_change_proof = r.st.view_change_proof
    /\ last_macro_block_timestamp = r.st.last_macro_block_timestamp
    /\ last_macro_block_hash = r.st.last_macro_block_hash
    /\ last_macro_block_random = r.st.last_macro_block_random
    /\ last_block_timestamp = r.st.last_block_timestamp
    /\ last_block_hash = r.st.last_block_hash
    /\ awards = r.st.awards
    /\ epoch_activity = r.st.epoch_activity
    /\ panic = r.st.panic
    /\ proposal = None
    /\ ret = r.ret

\* The generator and the wallet as the node constructs them.
Services ==
    /\ generator = Generator_new("Regular", FALSE)
    /\ wallet = Wallet_new(Payer, FALSE)

Init == Opened(new(EmptyMap, Genesis)) /\ Services

Running == panic = ""


\* The micro-blocks consensus may deliver in the current state.
MicroBlocks(st) ==
    IF validators(st) = <<>> THEN {}
    ELSE UNION { { NextMicroBlock(st, vc, txs) : txs \in TxLists(st, vc) } :
                   vc \in view_change(st) .. MaxViewChange }

PushMicroBlock ==
    /\ Running
    /\ proposal = None
    /\ Cardinality(DOMAIN database) < MaxBlocks
    /\ ~is_epoch_full(Self)
    /\ \E block \in MicroBlocks(Self) :
         Call(push_micro_block(Self, block, 0))
    /\ UNCHANGED proposal

PopMicroBlock ==
    /\ Running
    /\ offset > 0
    /\ Call(pop_micro_block(Self, 0))
    /\ UNCHANGED proposal

SetViewChange ==
    /\ Running
    /\ proposal = None
    /\ \E n \in (view_change(Self) + 1) .. MaxViewChange :
         Install(set_view_change(Self, n, << epoch, offset, n >>))
    /\ ret' = "Ok"
    /\ UNCHANGED proposal

ResetViewChange ==
    /\ Running
    /\ proposal = None
    /\ view_change(Self) > 0
    /\ Install(reset_view_change(Self))
    /\ ret' = "Ok"
    /\ UNCHANGED proposal

\* The macro-block that `leader` builds in the current view.
ProposalOf(leader) ==
    create_macro_block(Self, view_change(Self), AccountOf(leader), leader,
                       last_block_timestamp + 1)

\* The outcome r of create_macro_block is the proposal, or the abort.
Proposed(r) ==
    IF r.panic = ""
    THEN proposal' = r.block /\ ret' = "Ok" /\ UNCHANGED panic
    ELSE panic' = r.panic /\ ret' = "Panic" /\ UNCHANGED proposal

\* The leader of the current view builds the macro-block of the full epoch.
CreateMacroBlock ==
    /\ Running
    /\ is_epoch_full(Self)
    /\ epoch < MaxEpoch
    /\ proposal = None
    /\ validators(Self) /= <<>>
    /\ Proposed(ProposalOf(select_leader(election_result(Self), view_change(Self))))
    /\ UNCHANGED << database, block_by_hash, output_by_hash_idx, balance_map, escrow,
                    difficulty, epoch, offset, election_result_list, view_change_proof,
                    last_macro_block_timestamp, last_macro_block_hash,
                    last_macro_block_random, last_block_timestamp, last_block_hash,
                    awards, epoch_activity, generator, wallet >>

PushMacroBlock ==
    /\ Running
    /\ IsSome(proposal)
    /\ offset = 0
    /\ MacroBlockBalanced(Self, Unwrap(proposal))
    /\ Call(push_macro_block(Self, Unwrap(proposal), 0))
    /\ proposal' = None

\* The ledger is closed and opened again on the same directory.
Reopen ==
    /\ Running
    /\ Call(new(database, Genesis))
    /\ UNCHANGED proposal

Next ==
    \/ PushMicroBlock
    \/ PopMicroBlock
    \/ SetViewChange
    \/ ResetViewChange
    \/ CreateMacroBlock
    \/ PushMacroBlock
    \/ Reopen

Spec == Init /\ [][Next]_vars

(***************************************************************************)
(* The same ledger on a storage that may fail: one access of a call to the *)
(* db returns an error, which the call hands to its caller.                *)
(***************************************************************************)
\* The call ends with a storage error and leaves the ledger r.st.
Fails(r) == r.ret = "StorageError" /\ Call(r)

PushMicroBlockFails ==
    /\ Running
    /\ proposal = None
    /\ Cardinality(DOMAIN database) < MaxBlocks
    /\ ~is_epoch_full(Self)
    /\ \E block \in MicroBlocks(Self), fail \in 1 .. MaxFail :
         Fails(push_micro_block(Self, block, fail))
    /\ UNCHANGED proposal

PopMicroBlockFails ==
    /\ Running
    /\ offset > 0
    /\ \E fail \in 1 .. MaxFail :
         Fails(pop_micro_block(Self, fail))
    /\ UNCHANGED proposal

PushMacroBlockFails ==
    /\ Running
    /\ IsSome(proposal)
    /\ offset = 0
    /\ MacroBlockBalanced(Self, Unwrap(proposal))
    /\ \E fail \in 1 .. MaxFail :
         Fails(push_macro_block(Self, Unwrap(proposal), fail))
    /\ UNCHANGED proposal

NextFault ==
    \/ Next
    \/ PushMicroBlockFails
    \/ PopMicroBlockFails
    \/ PushMacroBlockFails

SpecFault == Init /\ [][NextFault]_vars

(***************************************************************************)
(* The ledger of a node that follows consensus over several epochs: every  *)
(* micro-block carries its coinbase, and micro-blocks are reverted only to *)
(* make room for the macro-block proposed for the full epoch.              *)
(***************************************************************************)
\* The micro-blocks of MicroBlocks(st) that carry a coinbase.
HonestMicroBlocks(st) == { b \in MicroBlocks(st) : b.transactions /= <<>> }

PushHonestMicroBlock ==
    /\ Running
    /\ proposal = None
    /\ Cardinality(DOMAIN database) < MaxAwardBlocks
    /\ ~is_epoch_full(Self)
    /\ \E block \in HonestMicroBlocks(Self) :
         Call(push_micro_block(Self, block, 0))
    /\ UNCHANGED proposal

\* while chain.offset() > 0 { chain.pop_micro_block() } before the
\* macro-block is applied.
RevertForMacroBlock ==
    /\ IsSome(proposal)
    /\ PopMicroBlock

NextAwards ==
    \/ PushHonestMicroBlock
    \/ SetViewChange
    \/ CreateMacroBlock
    \/ RevertForMacroBlock
    \/ PushMacroBlock

SpecAwards == Init /\ [][NextAwards]_vars

(***************************************************************************)
(* The ledger following consensus from a genesis in which the validators   *)
(* stake from the accounts a1 and a2, which may be one account.            *)
(***************************************************************************)
GenesisOfAccounts(a1, a2) ==
    [ Genesis EXCEPT !.outputs = << StakeOutput(1, a1, cfg.min_stake_amount, << 0, -1, 0 >>),
                                    StakeOutput(2, a2, cfg.min_stake_amount, << 0, -1, 1 >>),
                                    GenesisOutputs[3] >> ]

InitAccounts ==
    \E a1 \in { AccountOf(1), AccountOf(2) } : \E a2 \in { AccountOf(1), AccountOf(2) } :
       Opened(new(EmptyMap, GenesisOfAccounts(a1, a2))) /\ Services

SpecAccounts == InitAccounts /\ [][NextAwards]_vars

(***************************************************************************)
(* The generator running against the wallet service: the service answers   *)
(* the pending request or drops it, feeds or closes the stream of          *)
(* notifications, and the executor polls the generator.                    *)
(***************************************************************************)
WalletResponds ==
    /\ generator.panic = ""
    /\ generator.state \in { "NotInited", "WaitForWallet", "WaitForConfirmation" }
    /\ generator.rx = NotReady
    /\ \E r \in WalletResponses \cup { Msg("Canceled", 0) } :
         generator' = [ generator EXCEPT !.rx = r ]
    /\ UNCHANGED << ledger_vars, wallet >>

WalletNotifies ==
    /\ generator.panic = ""
    /\ generator.state = "WaitForBalance"
    /\ generator.rx = NotReady
    /\ \E n \in WalletNotifications \cup { Msg("Closed", 0) } :
         generator' = [ generator EXCEPT !.rx = n ]
    /\ UNCHANGED << ledger_vars, wallet >>

GeneratorPoll ==
    /\ generator.panic = ""
    /\ generator.sent < MaxPayments
    /\ \E timer \in { "Ready", "NotReady", "Err" }, password \in BOOLEAN :
         generator' = poll(generator, timer, password)
    /\ UNCHANGED << ledger_vars, wallet >>

InitGenerator ==
    /\ Opened(new(EmptyMap, Genesis))
    /\ wallet = Wallet_new(Payer, FALSE)
    /\ \E mode \in GeneratorModes, with_delay \in BOOLEAN :
         generator = Generator_new(mode, with_delay)

NextGenerator ==
    \/ WalletResponds
    \/ WalletNotifies
    \/ GeneratorPoll

SpecGenerator == InitGenerator /\ [][NextGenerator]_vars

(***************************************************************************)
(* The wallet fed with the outputs of the blocks: each call hands it up to *)
(* MaxOutputs spent and up to MaxOutputs new outputs.  The outputs are     *)
(* payments to the wallet of amounts whose sum passes I64_MAX, of amount   *)
(* zero and of a negative amount, a payment to another key, a message and  *)
(* a stake.                                                                *)
(***************************************************************************)
WalletOutputs ==
    { WalletOutput("Payment", Payer, 4, 1), WalletOutput("Payment", Payer, 4, 2),
      WalletOutput("Payment", Payer, 3, 3), WalletOutput("Payment", Payer, 0, 4),
      WalletOutput("Payment", Payer, -1, 5), WalletOutput("Payment", AccountOf(1), 4, 6),
      WalletOutput("Data", Payer, 0, 7), WalletOutput("Stake", Payer, 2, 8) }

OutputLists == UNION { [ 1 .. n -> WalletOutputs ] : n \in 0 .. MaxOutputs }

\* The call returned r.
Returned(r) == wallet' = [ r.w EXCEPT !.notifications = r.notifications ]

OnOutputsChanged ==
    /\ wallet.panic = ""
    /\ \E ins \in OutputLists, outs \in OutputLists :
         Returned(on_outputs_changed(wallet, ins, outs))
    /\ UNCHANGED << ledger_vars, generator >>

InitWallet ==
    /\ Opened(new(EmptyMap, Genesis))
    /\ generator = Generator_new("Regular", FALSE)
    /\ \E overflow_checks \in BOOLEAN : wallet = Wallet_new(Payer, overflow_checks)

SpecWallet == InitWallet /\ [][OnOutputsChanged]_vars

(***************************************************************************)
(* Properties.                                                             *)
(***************************************************************************)
\* A micro-block can be applied to the ledger st.
CanPush(st) == st.panic = "" /\ ~is_epoch_full(st) /\ validators(st) /= <<>>

\* push_micro_block(B) followed by pop_micro_block().
PushThenPop(st, block) == pop_micro_block(push_micro_block(st, block, 0).st, 0)

\* What a rollback is to restore, the view change aside.
Restored(st) ==
    [ epoch |-> st.epoch,
      offset |-> st.offset,
      last_block_hash |-> st.last_block_hash,
      last_block_timestamp |-> st.last_block_timestamp,
      last_random |-> last_random(st),
      validators |-> validators(st),
      unspent |-> unspent(st),
      balance |-> balance(st),
      escrow |-> st.escrow.current,
      epoch_activity |-> st.epoch_activity.current,
      log |-> st.database ]

Reopened == new(database, Genesis)

\* What recovery is to rebuild.
Recovered(st) ==
    [ epoch |-> st.epoch,
      offset |-> st.offset,
      last_block_hash |-> st.last_block_hash,
      last_block_timestamp |-> st.last_block_timestamp,
      last_macro_block_hash |-> st.last_macro_block_hash,
      last_macro_block_timestamp |-> st.last_macro_block_timestamp,
      stored |-> Len(blocks(st)),
      unspent |-> unspent(st),
      balance |-> balance(st),
      escrow |-> st.escrow.current,
      validators |-> validators(st) ]

GlobalBalanceHolds ==
    /\ panic /= "Invalid global monetary balance"
    /\ BalanceHolds(balance(Self).block_reward, balance(Self).burned,
                    balance(Self).created, balance(Self).gamma)

\* C3 witness: a micro-block that burns inputs is reverted back to the
\* checkpoint of a macro-block that carries block rewards.
GlobalBalanceHoldsWitness ==
    /\ Running
    /\ epoch = 2
    /\ offset = 1
    /\ balance(Self).burned /= balance(pop_micro_block(Self, 0).st).burned
    /\ balance(pop_micro_block(Self, 0).st).block_reward > Genesis.block_reward
    /\ BalanceHolds(balance(pop_micro_block(Self, 0).st).block_reward,
                    balance(pop_micro_block(Self, 0).st).burned,
                    balance(pop_micro_block(Self, 0).st).created,
                    balance(pop_micro_block(Self, 0).st).gamma)

\* The blocks of the log, as a set.
Stored == Range(blocks(Self))

Creates(b) ==
    IF b.kind = "Macro" THEN Range(b.outputs) ELSE Range(FlatTxouts(b.transactions))
Spends(b) ==
    IF b.kind = "Macro" THEN Range(b.inputs) ELSE Range(FlatTxins(b.transactions))

UnspentStakes == { o \in UnspentOutputs(Self) : o.kind = "Stake" }

RECURSIVE SumAmounts(_)
SumAmounts(outs) ==
    IF outs = {} THEN 0
    ELSE LET o == CHOOSE x \in outs : TRUE
         IN o.amount + SumAmounts(outs \ {o})

\* C6: the escrow holds one entry for each unspent StakeOutput and no other,
\* and the escrow total of a validator is the sum of the amounts of its
\* unspent StakeOutputs.
EscrowMatchesStakes ==
    Running =>
        /\ MvmKeys(escrow) = { << o.validator, Digest(o) >> : o \in UnspentStakes }
        /\ \A o \in UnspentStakes :
              escrow.current[<< o.validator, Digest(o) >>].amount = o.amount
        /\ \A v \in Validators :
              EscrowBalance(escrow, v)
                  = SumAmounts({ o \in UnspentStakes : o.validator = v })

\* C6 witness: after a macro-block checkpoint a validator holds two stakes,
\* one of them created by the macro-block.
EscrowMatchesStakesWitness ==
    /\ Running
    /\ epoch = 2
    /\ \E v \in Validators :
          /\ Cardinality(EscrowValidatorKeys(escrow, v)) = 2
          /\ EscrowBalance(escrow, v) = 2 * cfg.min_stake_amount
    /\ \E o \in UnspentStakes : o \notin Range(GenesisOutputs)

\* The current_lsn of the six indexes.
block_by_hash_lsn(st) == MvmCurrentLsn(st.block_by_hash)
output_by_hash_lsn(st) == MvmCurrentLsn(st.output_by_hash)
balance_lsn(st) == MvmCurrentLsn(st.balance)
escrow_lsn(st) == MvmCurrentLsn(st.escrow)
election_result_lsn(st) == MvmCurrentLsn(st.election_result)
epoch_activity_lsn(st) == MvmCurrentLsn(st.epoch_activity)

\* All six indexes are at lsn.
AllAt(st, lsn) ==
    /\ block_by_hash_lsn(st) = lsn
    /\ output_by_hash_lsn(st) = lsn
    /\ balance_lsn(st) = lsn
    /\ escrow_lsn(st) = lsn
    /\ election_result_lsn(st) = lsn
    /\ epoch_activity_lsn(st) = lsn

\* block_by_hash, balance and election_result are at lsn, the others at or
\* below it.
WrittenAt(st, lsn) ==
    /\ block_by_hash_lsn(st) = lsn
    /\ balance_lsn(st) = lsn
    /\ election_result_lsn(st) = lsn
    /\ LsnLeq(output_by_hash_lsn(st), lsn)
    /\ LsnLeq(escrow_lsn(st), lsn)
    /\ LsnLeq(epoch_activity_lsn(st), lsn)

\* The macro-block of the epoch can be applied.
CanPushMacro ==
    /\ Running
    /\ IsSome(proposal)
    /\ offset = 0
    /\ MacroBlockBalanced(Self, Unwrap(proposal))

\* C7 (as amended): after a successful push_micro_block or push_macro_block,
\* block_by_hash, balance and election_result have the LSN of the block as
\* current_lsn, and output_by_hash, escrow and epoch_activity have a
\* current_lsn at or below it.
IndexCoherence ==
    /\ CanPush(Self) =>
          \A block \in MicroBlocks(Self) :
              push_micro_block(Self, block, 0).ret = "Ok" =>
                  WrittenAt(push_micro_block(Self, block, 0).st, MicroLSN(epoch, offset))
    /\ CanPushMacro =>
          (push_macro_block(Self, Unwrap(proposal), 0).ret = "Ok" =>
              WrittenAt(push_macro_block(Self, Unwrap(proposal), 0).st, MacroLSN(epoch)))

\* C7 witness: a block without transactions is applied after a block with
\* outputs and leaves output_by_hash and escrow behind.
IndexCoherenceWitness ==
    /\ CanPush(Self)
    /\ offset = 1
    /\ output_by_hash_lsn(Self) = MicroLSN(epoch, 0)
    /\ \E block \in MicroBlocks(Self) :
          /\ block.transactions = <<>>
          /\ push_micro_block(Self, block, 0).ret = "Ok"
          /\ block_by_hash_lsn(push_micro_block(Self, block, 0).st) = MicroLSN(epoch, 1)
          /\ output_by_hash_lsn(push_micro_block(Self, block, 0).st) = MicroLSN(epoch, 0)
          /\ LsnLess(escrow_lsn(push_micro_block(Self, block, 0).st), MicroLSN(epoch, 1))

\* C7 as stated: after a successful push all six indexes have the LSN of the
\* block as current_lsn, whatever the block contains.
IndexesShareLsn ==
    /\ CanPush(Self) =>
          \A block \in MicroBlocks(Self) :
              push_micro_block(Self, block, 0).ret = "Ok" =>
                  AllAt(push_micro_block(Self, block, 0).st, MicroLSN(epoch, offset))
    /\ CanPushMacro =>
          (push_macro_block(Self, Unwrap(proposal), 0).ret = "Ok" =>
              AllAt(push_macro_block(Self, Unwrap(proposal), 0).st, MacroLSN(epoch)))

\* The LSN of the block before the last micro-block: the target of the
\* rollback of pop_micro_block.
RollbackTarget(st) ==
    IF st.offset = 1 THEN MacroLSN(st.epoch - 1) ELSE MicroLSN(st.epoch, st.offset - 2)

\* The last block of the ledger st is a micro-block.
CanPop(st) == st.panic = "" /\ st.epoch > 0 /\ st.offset > 0

\* C8 (as amended): when pop_micro_block returns, the current_lsn of
\* block_by_hash, output_by_hash, balance, escrow and epoch_activity is at
\* or below the rollback target, and the current_lsn of election_result is
\* the LSN (epoch, offset) of the reverted block, where the view change was
\* reset.
RollbackLsn ==
    CanPop(Self) =>
        LET r == pop_micro_block(Self, 0)
        IN /\ r.ret = "Ok"
           /\ LsnLeq(block_by_hash_lsn(r.st), RollbackTarget(Self))
           /\ LsnLeq(output_by_hash_lsn(r.st), RollbackTarget(Self))
           /\ LsnLeq(balance_lsn(r.st), RollbackTarget(Self))
           /\ LsnLeq(escrow_lsn(r.st), RollbackTarget(Self))
           /\ LsnLeq(epoch_activity_lsn(r.st), RollbackTarget(Self))
           /\ election_result_lsn(r.st) = MicroLSN(epoch, offset - 1)

\* C8 witness: the second micro-block of an epoch is reverted; the escrow
\* stays below the target and the election result is above it.
RollbackLsnWitness ==
    /\ CanPop(Self)
    /\ offset = 2
    /\ pop_micro_block(Self, 0).ret = "Ok"
    /\ block_by_hash_lsn(pop_micro_block(Self, 0).st) = MicroLSN(epoch, 0)
    /\ LsnLess(escrow_lsn(pop_micro_block(Self, 0).st), MicroLSN(epoch, 0))
    /\ election_result_lsn(pop_micro_block(Self, 0).st) = MicroLSN(epoch, 1)

\* C8 as stated: when pop_micro_block returns, the current_lsn of each of
\* the six indexes is at or below the rollback target.
RollbackBelowTarget ==
    CanPop(Self) =>
        LET r == pop_micro_block(Self, 0)
        IN r.ret = "Ok" =>
              /\ LsnLeq(block_by_hash_lsn(r.st), RollbackTarget(Self))
              /\ LsnLeq(output_by_hash_lsn(r.st), RollbackTarget(Self))
              /\ LsnLeq(balance_lsn(r.st), RollbackTarget(Self))
              /\ LsnLeq(escrow_lsn(r.st), RollbackTarget(Self))
              /\ LsnLeq(epoch_activity_lsn(r.st), RollbackTarget(Self))
              /\ LsnLeq(election_result_lsn(r.st), RollbackTarget(Self))

\* No insert or remove was made below the current_lsn of an index of st.
Monotonic(st) ==
    /\ ~st.block_by_hash.misuse
    /\ ~st.output_by_hash.misuse
    /\ ~st.balance.misuse
    /\ ~st.escrow.misuse
    /\ ~st.election_result.misuse
    /\ ~st.epoch_activity.misuse

\* C9: every insert or remove that new, push_micro_block, push_macro_block,
\* pop_micro_block, set_view_change and reset_view_change make on an index
\* uses an LSN at or above the current_lsn of the index.
MonotonicLsn == Monotonic(Self) /\ Monotonic(Reopened.st)

\* C9 witness: a view change is set at the LSN at which the revert of a
\* micro-block has just written, in the second epoch.
MonotonicLsnWitness ==
    /\ Running
    /\ epoch = 2
    /\ offset = 1
    /\ Monotonic(pop_micro_block(Self, 0).st)
    /\ election_result_lsn(pop_micro_block(Self, 0).st) = MicroLSN(2, 0)
    /\ Monotonic(set_view_change(pop_micro_block(Self, 0).st, 1, << 2, 0, 1 >>))
    /\ view_change(set_view_change(pop_micro_block(Self, 0).st, 1, << 2, 0, 1 >>)) = 1

\* What a failed push is to leave alone.
Applied(st) ==
    [ log |-> st.database,
      epoch |-> st.epoch,
      offset |-> st.offset,
      last_block_hash |-> st.last_block_hash,
      block_by_hash |-> st.block_by_hash,
      output_by_hash |-> st.output_by_hash,
      balance |-> st.balance,
      escrow |-> st.escrow,
      election_result |-> st.election_result,
      epoch_activity |-> st.epoch_activity ]

\* C10: when push_micro_block or push_macro_block returns a StorageError,
\* the block log and epoch, offset, last_block_hash, block_by_hash,
\* output_by_hash, balance, escrow, election_result and epoch_activity are
\* as before the call.
NoPartialApply ==
    /\ CanPush(Self) =>
          \A block \in MicroBlocks(Self), fail \in 1 .. MaxFail :
              push_micro_block(Self, block, fail).ret = "StorageError" =>
                  Applied(push_micro_block(Self, block, fail).st) = Applied(Self)
    /\ CanPushMacro =>
          \A fail \in 1 .. MaxFail :
              push_macro_block(Self, Unwrap(proposal), fail).ret = "StorageError" =>
                  Applied(push_macro_block(Self, Unwrap(proposal), fail).st) = Applied(Self)

\* Genesis blocks other than the one the log was created with: they differ
\* from it in the timestamp, in the random or in the order of the outputs.
OtherGeneses ==
    { [ Genesis EXCEPT !.timestamp = 2 ],
      [ Genesis EXCEPT !.random = 2 ],
      [ Genesis EXCEPT !.outputs = << GenesisOutputs[3], GenesisOutputs[1],
                                      GenesisOutputs[2] >> ] }

\* C11: new() on a non-empty log whose first block does not hash to the hash
\* of the supplied genesis returns IncompatibleGenesis: no abort, no ledger.
GenesisEnforced ==
    Running =>
        \A g \in OtherGeneses :
            Digest(g) /= Digest(blocks(Self)[1]) =>
                new(database, g).ret = "IncompatibleGenesis"

\* C11 witness: a log of two macro-blocks and a micro-block is opened with
\* another genesis and refused.
GenesisEnforcedWitness ==
    /\ Running
    /\ epoch = 2
    /\ offset = 1
    /\ \E g \in OtherGeneses :
          /\ Digest(g) /= Digest(blocks(Self)[1])
          /\ new(database, g).ret = "IncompatibleGenesis"

\* The genesis blocks a ledger may be created with.
Geneses == { Genesis } \cup OtherGeneses

\* The outcome of new() on an empty log with the genesis g.
Fresh(g) == new(EmptyMap, g)

\* The ledger st holds the genesis g and nothing else.
HoldsGenesis(st, g) ==
    /\ st.epoch = 1
    /\ st.offset = 0
    /\ view_change(st) = 0
    /\ DOMAIN st.database = { block_key(MacroLSN(0)) }
    /\ st.database[block_key(MacroLSN(0))] = g
    /\ unspent(st) = { Digest(o) : o \in Range(g.outputs) }
    /\ contains_block(st, Digest(g))
    /\ st.last_block_hash = Digest(g)
    /\ st.last_macro_block_hash = Digest(g)

\* C12: new() on an empty log returns a ledger with epoch 1, offset 0,
\* view_change 0, a log of the genesis alone at (0, SENTINEL), the hashes of
\* the genesis outputs as unspent set, the genesis in block_by_hash and its
\* hash as last_block_hash and last_macro_block_hash.
FreshLedger ==
    \A g \in Geneses : Fresh(g).ret = "Ok" /\ HoldsGenesis(Fresh(g).st, g)

\* C12 witness: the ledger is the one new() built on the empty log.
FreshLedgerWitness ==
    /\ Running
    /\ ret = "Ok"
    /\ Self = Fresh(Genesis).st
    /\ HoldsGenesis(Self, Genesis)
    /\ Cardinality(unspent(Self)) = 3

\* The record at key k of the log is kept by the step.
Kept(k) == k \in DOMAIN database' /\ database'[k] = database[k]

\* A step keeps the macro-blocks of the log and does not decrease the epoch;
\* a record it removes is a micro-block of the current epoch.
KeepsMacroBlocks ==
    /\ epoch' >= epoch
    /\ \A k \in DOMAIN database :
          \/ Kept(k)
          \/ /\ database[k].kind = "Micro"
             /\ database[k].epoch = epoch
             /\ k \notin DOMAIN database'

\* pop_micro_block on a ledger whose last block is a macro-block aborts on
\* its assertion and leaves the log alone.
PopRefused(st) ==
    /\ pop_micro_block(st, 0).ret = "Panic"
    /\ pop_micro_block(st, 0).st.panic = "attempt to revert the macro block"
    /\ pop_micro_block(st, 0).st.database = st.database

\* C13: no step decreases epoch or removes a macro-block from the log, and
\* pop_micro_block is refused whenever offset = 0: only micro-blocks of the
\* current epoch leave the log.
MacroBlocksPermanent ==
    /\ [](Running /\ offset = 0 => PopRefused(Self))
    /\ [][KeepsMacroBlocks]_vars

\* C13 witness: the ledger stands at the macro-block of the first epoch, the
\* election result being already written in the second, and pop_micro_block
\* is refused.
MacroBlocksPermanentWitness ==
    /\ Running
    /\ epoch = 2
    /\ offset = 0
    /\ election_result_lsn(Self) = MicroLSN(2, 0)
    /\ IsSome(DbGet(Self, MacroLSN(1)))
    /\ PopRefused(Self)

\* The last micro-block of the ledger st.
LastMicroBlock(st) == Unwrap(DbGet(st, MicroLSN(st.epoch, st.offset - 1)))

\* The hashes of a list of outputs.
Hashes(outs) == [ i \in DOMAIN outs |-> Digest(outs[i]) ]

\* The call r of pop_micro_block on the ledger st that reverted the block b
\* handed back the outputs b created and the outputs b spent.
PopReturned(st, r, b) ==
    /\ r.ret = "Ok"
    /\ r.pruned = FlatTxouts(b.transactions)
    /\ Hashes(r.created) = FlatTxins(b.transactions)
    /\ \A o \in Range(r.created) : contains_output(r.st, Digest(o))
    /\ \A o \in Range(r.pruned) : ~contains_output(r.st, Digest(o))

\* C14: pop_micro_block returns the outputs that the popped block created
\* and the outputs that it spent, each list in the order of the block; after
\* the call the spent ones are unspent again and the created ones are not.
PopReturnsOutputs ==
    CanPop(Self) => PopReturned(Self, pop_micro_block(Self, 0), LastMicroBlock(Self))

\* C14 witness: the reverted block spent outputs and created others.
PopReturnsOutputsWitness ==
    /\ CanPop(Self)
    /\ FlatTxins(LastMicroBlock(Self).transactions) /= <<>>
    /\ Len(FlatTxouts(LastMicroBlock(Self).transactions)) > 1
    /\ pop_micro_block(Self, 0).created /= <<>>
    /\ ~contains_output(Self, Digest(pop_micro_block(Self, 0).created[1]))
    /\ PopReturned(Self, pop_micro_block(Self, 0), LastMicroBlock(Self))

RECURSIVE PopAll(_)
\* while chain.offset() > 0 { chain.pop_micro_block() }
PopAll(st) ==
    IF st.offset = 0 \/ st.panic /= "" THEN st ELSE PopAll(pop_micro_block(st, 0).st)

\* The macro-block that the leader of the current view of st builds.
MacroProposalBy(st, leader) ==
    create_macro_block(st, view_change(st), AccountOf(leader), leader,
                       st.last_block_timestamp + 1)

MacroProposal(st) ==
    MacroProposalBy(st, select_leader(election_result(st), view_change(st)))

\* The epoch of the ledger st is full and has a leader to close it.
CanClose(st) == st.panic = "" /\ is_epoch_full(st) /\ validators(st) /= <<>>

\* The micro-blocks of the epoch are reverted and the macro-block M applied.
CloseEpoch(st, M) == push_macro_block(PopAll(st), M, 0)

\* The outputs of the coinbase and service-award transactions of M.
ExtraOutputs(st, M) ==
    Range(FlatTxouts(MacroExtraTxs(st, awards_from_active_epoch(st, M.random).winner)))

\* The call r applied M, built on st, and kept the unspent set of st.
ClosedWith(st, M, r) ==
    /\ unspent(r.st) = unspent(st) \cup { Digest(o) : o \in ExtraOutputs(st, M) }
    /\ r.st.epoch = st.epoch + 1
    /\ r.st.offset = 0
    /\ r.st.last_block_hash = Digest(M)

\* The proposal p built on st closes the epoch of st.
Closes(st, p) ==
    /\ p.panic = ""
    /\ CloseEpoch(st, Unwrap(p.block)).ret = "Ok" =>
          ClosedWith(st, Unwrap(p.block), CloseEpoch(st, Unwrap(p.block)))

\* C15: when the macro-block built by create_macro_block on a full epoch is
\* applied after the micro-blocks of the epoch were reverted, the unspent set
\* is the one after the micro-blocks plus the outputs of the coinbase and
\* service-award transactions, epoch is one more, offset is 0 and
\* last_block_hash is the hash of the macro-block.
EpochClosePreservesUtxo == CanClose(Self) => Closes(Self, MacroProposal(Self))

\* C15 witness: both micro-blocks of the epoch spend and create outputs, and
\* the macro-block built from them is applied.
EpochClosePreservesUtxoWitness ==
    /\ CanClose(Self)
    /\ \A b \in Range(blocks_starting(Self, epoch, 0)) : FlatTxins(b.transactions) /= <<>>
    /\ MacroProposal(Self).panic = ""
    /\ CloseEpoch(Self, Unwrap(MacroProposal(Self).block)).ret = "Ok"
    /\ unspent(PopAll(Self)) /= unspent(Self)
    /\ ClosedWith(Self, Unwrap(MacroProposal(Self).block),
                  CloseEpoch(Self, Unwrap(MacroProposal(Self).block)))

\* The (account, state) pairs that awards_from_active_epoch hands to
\* finalize_epoch: the recorded activity of the current validators.
FedActivity(st) ==
    Range(ValidatorsActivity(st, epoch_activity_of(st),
                             SetToSortedSeq(DOMAIN epoch_activity_of(st))))

\* The (account, state) pairs that register_macro_block hands to
\* finalize_epoch when it applies a block with the bitmap activity_map on st.
RebuiltActivity(st, activity_map) ==
    Range(MapPairs(epoch_activity_from_macro_block(st, activity_map).value))

\* The winner that register_macro_block derives on st for the bitmap
\* activity_map and the randomness random.
RebuiltWinner(st, activity_map, random) ==
    check_winners(finalize_epoch(st.awards, cfg.service_award_per_epoch,
                                 MapPairs(epoch_activity_from_macro_block(
                                              st, activity_map).value)),
                  random).winner

\* The two computations agree on the full epoch of st for the randomness
\* random: the producer works on st, the receiver on st with the
\* micro-blocks of the epoch reverted.
AwardsAgree(st, random) ==
    /\ FedActivity(st)
          = RebuiltActivity(PopAll(st), awards_from_active_epoch(st, random).activity_map)
    /\ awards_from_active_epoch(st, random).winner
          = RebuiltWinner(PopAll(st), awards_from_active_epoch(st, random).activity_map,
                          random)

\* C16: on every full epoch the per-account activity and the winner of
\* awards_from_active_epoch equal the per-account activity that
\* epoch_activity_from_macro_block rebuilds from the returned activity_map
\* and the winner that register_macro_block derives from it.
AwardsCrossCoupling ==
    CanClose(Self) => AwardsAgree(Self, Unwrap(MacroProposal(Self).block).random)

\* push_macro_block accepts the proposal p built on st once the micro-blocks
\* of the epoch of st are reverted.
Accepted(st, p) == p.panic = "" /\ CloseEpoch(st, Unwrap(p.block)).ret = "Ok"

Slashed(st) ==
    { tx.cheater : tx \in { t \in Range(CollectTxs(blocks_starting(st, st.epoch, 0))) :
                              t.kind = "Slashing" } }

\* The validators vs without those of the set out, stakes and order kept.
Without(vs, out) == SelectSeq(vs, LAMBDA v : v[1] \notin out)

\* The slashed validators of the epoch are out of validators(), the others
\* keep stake and order, and validators_at_epoch_start() lists them all.
SlashedAreOut(st) ==
    /\ validators_at_epoch_start(st).panic = ""
    /\ \A c \in Slashed(st) :
          /\ \A i \in DOMAIN validators(st) : validators(st)[i][1] /= c
          /\ \E i \in DOMAIN Unwrap(validators_at_epoch_start(st).value) :
                Unwrap(validators_at_epoch_start(st).value)[i][1] = c
    /\ validators(st) = Without(Unwrap(validators_at_epoch_start(st).value), Slashed(st))

\* C18: while the block with a SlashingTransaction against v is applied,
\* through further micro-blocks, view changes and reverts of later blocks,
\* v is not in validators(), the other validators keep stake and order, and
\* validators_at_epoch_start() still lists v.
SlashingRemovesValidator == Running => SlashedAreOut(Self)

\* C18 witness: the first micro-block of the epoch slashed a validator, a
\* second micro-block was applied after it and a view change is pending.
SlashingRemovesValidatorWitness ==
    /\ Running
    /\ offset = 2
    /\ view_change(Self) > 0
    /\ \E tx \in Range(blocks_starting(Self, epoch, 0)[1].transactions) : tx.kind = "Slashing"
    /\ Slashed(Self) /= {}
    /\ Len(validators(Self)) = 1
    /\ Len(Unwrap(validators_at_epoch_start(Self).value)) = 2
    /\ SlashedAreOut(Self)

\* The LSN that write_block is called with for the block b.
LsnOf(b) == IF b.kind = "Macro" THEN MacroLSN(b.epoch) ELSE MicroLSN(b.epoch, b.offset)

\* Epochs and offsets that differ in one of the higher bytes of the key or
\* only in the lowest.
KeyEpochs == { 0, 1, 2, 255, 256, 257, 65536 }
KeyOffsets == { 0, 1, 255, 256, 257, 65536 }

\* Positions in the log: a micro-block (epoch, offset) or the macro-block of
\* an epoch, which comes after every micro-block of the epoch.
Positions == [ epoch : KeyEpochs, macro : BOOLEAN, offset : KeyOffsets ]
PositionLsn(p) == IF p.macro THEN MacroLSN(p.epoch) ELSE MicroLSN(p.epoch, p.offset)
PositionBefore(p, q) ==
    \/ p.epoch < q.epoch
    \/ p.epoch = q.epoch /\ ~p.macro /\ (q.macro \/ p.offset < q.offset)

\* The order of the keys is the order of (epoch, offset).
KeysOrdered ==
    \A p, q \in Positions :
        PositionBefore(p, q)
            <=> BytesLess(block_key(PositionLsn(p)), block_key(PositionLsn(q)))

\* Every record is stored under the key of its LSN, a micro-block never at
\* the offset of the macro-blocks.
StoredByLsn(st) ==
    \A k \in DOMAIN st.database :
        /\ k = block_key(LsnOf(st.database[k]))
        /\ Len(k) = 12
        /\ st.database[k].kind = "Micro" => SubSeq(k, 9, 12) /= MACRO_BLOCK_OFFSET

\* Full iteration gives the blocks in the order in which they were applied:
\* each block follows the one it was built on, up to the last block.
InApplyOrder(st, bs) ==
    /\ Len(bs) = Cardinality(DOMAIN st.database)
    /\ \A i \in 1 .. (Len(bs) - 1) :
          /\ bs[i + 1].previous = Digest(bs[i])
          /\ LsnLess(LsnOf(bs[i]), LsnOf(bs[i + 1]))
    /\ bs /= <<>> => Digest(bs[Len(bs)]) = st.last_block_hash

\* C19: blocks() returns the stored blocks in the order in which they were
\* applied; the keys are the big-endian bytes of (epoch, offset), so their
\* order is the order of (epoch, offset) also for epochs and offsets that
\* differ in higher bytes, and the macro-block of an epoch, stored at offset
\* 0xFFFFFFFF where no micro-block is stored, sorts after its micro-blocks.
IterationInApplyOrder ==
    /\ KeysOrdered
    /\ Running => StoredByLsn(Self) /\ InApplyOrder(Self, blocks(Self))

\* C19 witness: the log holds two macro-blocks and a micro-block applied
\* after them, and iteration returns them in this order.
IterationInApplyOrderWitness ==
    /\ Running
    /\ epoch = 2
    /\ offset = 1
    /\ Len(blocks(Self)) = 3
    /\ blocks(Self)[1] = Genesis
    /\ blocks(Self)[2].kind = "Macro"
    /\ blocks(Self)[3].kind = "Micro"
    /\ Digest(blocks(Self)[3]) = last_block_hash
    /\ InApplyOrder(Self, blocks(Self))

\* The stored blocks whose LSN is at or after (e, o).
StoredFrom(st, e, o) ==
    { b \in Range(blocks(st)) : LsnLeq(MicroLSN(e, o), LsnOf(b)) }

\* bs is the blocks of the set stored, each once, in increasing LSN order.
InLsnOrder(bs, stored) ==
    /\ Range(bs) = stored
    /\ Len(bs) = Cardinality(stored)
    /\ \A i \in 1 .. (Len(bs) - 1) : LsnLess(LsnOf(bs[i]), LsnOf(bs[i + 1]))

\* blocks_starting(epoch, 0) is the micro-blocks applied in the epoch.
MicroBlocksOfEpoch(st, bs) ==
    /\ Len(bs) = st.offset
    /\ \A i \in DOMAIN bs :
          bs[i].kind = "Micro" /\ bs[i].epoch = st.epoch /\ bs[i].offset = i - 1
    /\ bs /= <<>> => Digest(bs[Len(bs)]) = st.last_block_hash

\* What blocks_starting yields on the ledger st.
StartingYields(st) ==
    /\ \A e \in 0 .. (st.epoch + 1), o \in 0 .. (cfg.micro_blocks_in_epoch + 1) :
          InLsnOrder(blocks_starting(st, e, o), StoredFrom(st, e, o))
    /\ blocks_starting(st, st.epoch, st.offset) = <<>>
    /\ MicroBlocksOfEpoch(st, blocks_starting(st, st.epoch, 0))

\* C20: blocks_starting(e, o) yields the stored blocks whose LSN is at or
\* after (e, o), each once and in increasing LSN order; it yields nothing
\* from (epoch, offset), and from (epoch, 0) exactly the micro-blocks applied
\* in the current epoch.
BlocksStartingYields == Running => StartingYields(Self)

\* What a view change leaves alone.
ViewChangeFrame(st) ==
    [ epoch |-> st.epoch,
      offset |-> st.offset,
      last_block_hash |-> st.last_block_hash,
      last_random |-> last_random(st),
      validators |-> validators(st),
      facilitator |-> election_result(st).facilitator,
      unspent |-> unspent(st),
      balance |-> balance(st),
      escrow |-> st.escrow.current ]

\* The proof handed to set_view_change(n) on the ledger st.
ProofFor(st, n) == << st.epoch, st.offset, n >>

\* set_view_change(n, proof) on st gave the ledger r.
ViewChangeSet(st, n, proof, r) ==
    IF n > view_change(st)
    THEN /\ r.panic = ""
         /\ view_change(r) = n
         /\ r.view_change_proof = Some(proof)
         /\ ViewChangeFrame(r) = ViewChangeFrame(st)
         /\ election_result_lsn(r) = MicroLSN(st.epoch, st.offset)
    ELSE r.panic /= ""

\* reset_view_change() on st gave the ledger r.
ViewChangeReset(st, r) ==
    /\ r.panic = ""
    /\ view_change(r) = 0
    /\ r.view_change_proof = None
    /\ ViewChangeFrame(r) = ViewChangeFrame(st)
    /\ election_result_lsn(r) = MicroLSN(st.epoch, st.offset)

\* C21: set_view_change(n, proof) aborts unless n > view_change(); when
\* accepted view_change() = n and view_change_proof() = Some(proof);
\* reset_view_change() gives view_change() = 0 and no proof; both leave epoch,
\* offset, last_block_hash, last_random, validators, facilitator, the unspent
\* set, balance and escrow as they were and write the election result at
\* LSN (epoch, offset).
ViewChangeEffect ==
    Running =>
        /\ \A n \in 0 .. (MaxViewChange + 1) :
              ViewChangeSet(Self, n, ProofFor(Self, n),
                            set_view_change(Self, n, ProofFor(Self, n)))
        /\ ViewChangeReset(Self, reset_view_change(Self))

\* C21 witness: a view change is pending with its proof after a micro-block;
\* the same number is refused, a greater one accepted, and a reset clears it.
ViewChangeEffectWitness ==
    /\ Running
    /\ offset > 0
    /\ view_change(Self) = 1
    /\ view_change_proof = Some(ProofFor(Self, 1))
    /\ set_view_change(Self, 1, ProofFor(Self, 1)).panic /= ""
    /\ view_change(set_view_change(Self, 2, ProofFor(Self, 2))) = 2
    /\ view_change(reset_view_change(Self)) = 0
    /\ reset_view_change(Self).view_change_proof = None

\* The validators that register_macro_block selects on the ledger st, which
\* no micro-block has changed since its last macro-block.
ElectedAtMacroBlock(st) ==
    select_validators_slots(
        get_stakers_majority(st.escrow, st.epoch, cfg.min_stake_amount),
        st.last_macro_block_random, cfg.max_slot_count).validators

\* validators_at_epoch_start() returns the list vs on st, from undo records
\* that election_result still holds.
EpochStartIs(st, vs) ==
    /\ validators_at_epoch_start(st).panic = ""
    /\ validators_at_epoch_start(st).value = Some(vs)
    /\ ~MvmRollbackToLsn(st.election_result, MacroLSN(st.epoch - 1)).behind

\* Before any micro-block of the epoch the list is the one just selected.
EpochStartElected ==
    Running /\ epoch > 0 /\ offset = 0 => EpochStartIs(Self, ElectedAtMacroBlock(Self))

\* A step inside an epoch keeps the list, and a step into the next epoch
\* makes it the validators just elected.
EpochStartKept ==
    Running /\ Running' =>
        IF epoch' = epoch
        THEN validators_at_epoch_start(Self)' = validators_at_epoch_start(Self)
        ELSE EpochStartIs(Self, validators(Self))'

\* C22: with epoch > 0, validators_at_epoch_start() is the validator list
\* selected when the most recent macro-block was applied, whatever
\* micro-blocks, slashings, view changes and reverts came since and however
\* many macro-blocks were applied before; election_result keeps the undo
\* records that the lookup needs.
EpochStartValidators ==
    /\ [](Running /\ epoch > 0 =>
              EpochStartIs(Self, Unwrap(validators_at_epoch_start(Self).value)))
    /\ []EpochStartElected
    /\ [][EpochStartKept]_vars

\* C22 witness: in the second epoch a micro-block slashed a validator, so
\* validators() is shorter than the list of the start of the epoch, which is
\* still returned.
EpochStartValidatorsWitness ==
    /\ Running
    /\ epoch = 2
    /\ offset = 1
    /\ Len(validators(Self)) = 1
    /\ EpochStartIs(Self, ElectedAtMacroBlock(PopAll(Self)))
    /\ Len(ElectedAtMacroBlock(PopAll(Self))) = 2

\* The LSNs of the blocks in the log of st.
StoredLsns(st) == { LsnOf(b) : b \in Range(blocks(st)) }

\* The log of st up to the block at the LSN t.
LogUpTo(st, t) ==
    [ k \in { block_key(l) : l \in { x \in StoredLsns(st) : LsnLeq(x, t) } } |->
        st.database[k] ]

\* The ledger that applying the blocks of the log up to t, one after the
\* other, builds: what the maps held before the first mutation above t.
AsOf(st, t) == new(LogUpTo(st, t), Genesis).st

\* rollback_to_lsn(t) on the map m gives the content `was`, with
\* current_lsn at or below t.
RolledBackTo(m, t, was) ==
    /\ MvmRollbackToLsn(m, t).current = was.current
    /\ LsnLeq(MvmCurrentLsn(MvmRollbackToLsn(m, t)), t)
    /\ ~MvmRollbackToLsn(m, t).behind

\* The same, for a target that is not behind the last checkpoint of m.
RollbackRestoresMap(m, t, was) == LsnLeq(m.floor, t) => RolledBackTo(m, t, was)

\* rollback_to_lsn(t) restores each multi-versioned map of the ledger st.
RollbackRestoresAt(st, t, was) ==
    /\ RollbackRestoresMap(st.block_by_hash, t, was.block_by_hash)
    /\ RollbackRestoresMap(st.output_by_hash, t, was.output_by_hash)
    /\ RollbackRestoresMap(st.balance, t, was.balance)
    /\ RollbackRestoresMap(st.escrow, t, was.escrow)
    /\ RollbackRestoresMap(st.election_result, t, was.election_result)
    /\ RollbackRestoresMap(st.epoch_activity, t, was.epoch_activity)

StakeEntry(st, s) == st.escrow.current[<< s.validator, Digest(s) >>]

\* The epoch of the ledger when the block holding the unspent output s was
\* applied: the epoch of the block.
StakedAtEpoch(st, s) == Unwrap(MvmGet(st.output_by_hash, Digest(s))).epoch

\* Escrow::unstake of the stake s with epoch_now on the escrow e.
UnstakeAt(e, s, epoch_now) ==
    IF epoch_now < e.current[<< s.validator, Digest(s) >>].active_until_epoch
    THEN /\ EscrowUnstakeError(e, s.validator, Digest(s), epoch_now) = "StakeIsLocked"
         /\ EscrowUnstake(e, e.lsn, s.validator, Digest(s), epoch_now) = e
    ELSE /\ EscrowUnstakeError(e, s.validator, Digest(s), epoch_now) = ""
         /\ << s.validator, Digest(s) >>
               \notin MvmKeys(EscrowUnstake(e, e.lsn, s.validator, Digest(s), epoch_now))

\* The micro-block of the current leader that withdraws the stake s.
WithdrawBlock(st, s) ==
    NextMicroBlock(st, view_change(st),
                   << CoinbaseTx(cfg.block_reward, << st.epoch, st.offset, 0 >>),
                      PaymentTx(s, PaymentOutput(s.recipient, s.amount,
                                                 << st.epoch, st.offset, 1 >>)) >>)

\* The call r applied a block that spends the stake s on the ledger st.
Withdrawn(st, s, r) ==
    IF st.epoch < StakeEntry(st, s).active_until_epoch
    THEN r.ret /= "Ok" /\ r.st.escrow.current = st.escrow.current
    ELSE r.ret = "Ok" /\ << s.validator, Digest(s) >> \notin MvmKeys(r.st.escrow)

\* The lock of the unspent stake s on the ledger st.
StakeLocked(st, s) ==
    /\ << s.validator, Digest(s) >> \in MvmKeys(st.escrow)
    /\ StakeEntry(st, s).active_until_epoch = StakedAtEpoch(st, s) + cfg.stake_epochs
    /\ \A epoch_now \in 0 .. (MaxEpoch + 2) : UnstakeAt(st.escrow, s, epoch_now)
    /\ CanPush(st) => Withdrawn(st, s, push_micro_block(st, WithdrawBlock(st, s), 0))

StakersOf(outs) ==
    [ i \in DOMAIN SetToSortedSeq({ o.validator : o \in { x \in Range(outs) : x.kind = "Stake" } }) |->
        << SetToSortedSeq({ o.validator : o \in { x \in Range(outs) : x.kind = "Stake" } })[i],
           cfg.min_stake_amount >> ]

\* get_stakers_majority(epoch(), min_stake_amount) on the ledger st.
StakersMajority(st) == get_stakers_majority(st.escrow, st.epoch, cfg.min_stake_amount)

\* The ledger st opened with the genesis g lists every validator of g with
\* the minimal stake, and its validators are among them.
ListsStakers(st, g) ==
    /\ st.epoch = 1
    /\ \A o \in Range(g.outputs) : o.kind = "Stake" => o.amount = cfg.min_stake_amount
    /\ StakersMajority(st) = StakersOf(g.outputs)
    /\ Len(StakersMajority(st)) = Cardinality(Validators)
    /\ validators(st) /= <<>>
    /\ \A i \in DOMAIN validators(st) :
          \E j \in DOMAIN StakersMajority(st) : StakersMajority(st)[j][1] = validators(st)[i][1]

LeaderWhileApplied(st, block, v) ==
    ElectionSlot(Without(validators(st),
                         { tx.cheater : tx \in { t \in Range(block.transactions) : t.kind = "Slashing" } }),
                 election_result(st).random, v)

\* The leaders of the view changes that block skipped.
SkippedLeaders(st, block) ==
    { LeaderWhileApplied(st, block, v) : v \in 0 .. block.view_change - 1 }

\* The recorded activity of st.
Activity(st) == st.epoch_activity.current

\* No validator that failed in st is active in the ledger now.
FailedStay(st, now) ==
    \A k \in DOMAIN Activity(st) :
       Activity(st)[k].kind = "FailedAt" => k \in DOMAIN Activity(now)
                                            /\ Activity(now)[k].kind = "FailedAt"

\* The activity of now after block was applied to st, an entry FailedAt of
\* st left as it is.
TrackedKeeping(st, block, now) ==
    /\ \A k \in SkippedLeaders(st, block) :
          /\ k \in DOMAIN Activity(now)
          /\ Activity(now)[k] = IF k \in DOMAIN Activity(st) /\ Activity(st)[k].kind = "FailedAt"
                                THEN Activity(st)[k]
                                ELSE FailedAt(st.epoch, st.offset)
    /\ LeaderWhileApplied(st, block, block.view_change) \in DOMAIN Activity(now)
    /\ LeaderWhileApplied(st, block, block.view_change) \notin
          DOMAIN Activity(st) \cup SkippedLeaders(st, block)
         => Activity(now)[LeaderWhileApplied(st, block, block.view_change)] = Active
    /\ \A k \in DOMAIN Activity(st) :
          Activity(st)[k].kind = "FailedAt" => k \in DOMAIN Activity(now)
                                               /\ Activity(now)[k] = Activity(st)[k]
    /\ FailedStay(st, now)

\* The activity of now after block was applied to st, the skipped leaders
\* stamped with the position of the block.
TrackedStamping(st, block, now) ==
    /\ DOMAIN Activity(now) = DOMAIN Activity(st) \cup SkippedLeaders(st, block)
                              \cup { LeaderWhileApplied(st, block, block.view_change) }
    /\ \A k \in SkippedLeaders(st, block) : Activity(now)[k] = FailedAt(st.epoch, st.offset)
    /\ LeaderWhileApplied(st, block, block.view_change) \notin
          DOMAIN Activity(st) \cup SkippedLeaders(st, block)
         => Activity(now)[LeaderWhileApplied(st, block, block.view_change)] = Active
    /\ \A k \in DOMAIN Activity(st) \ SkippedLeaders(st, block) : Activity(now)[k] = Activity(st)[k]
    /\ FailedStay(st, now)

\* C26 as stated: applying a micro-block with view_change = v records the
\* leaders of the view changes 0..v-1 FailedAt(epoch, offset), leaves an
\* entry that is FailedAt already unchanged, records the leader of v Active
\* only if it has no entry, and turns no FailedAt back to Active.
ActivityTrackingIdempotent ==
    Running => \A block \in MicroBlocks(Self) :
                  push_micro_block(Self, block, 0).ret = "Ok"
                  => TrackedKeeping(Self, block, push_micro_block(Self, block, 0).st)

\* C26, amended: applying a micro-block with view_change = v at (epoch,
\* offset) records the leader of every view change 0..v-1
\* FailedAt(epoch, offset), over any entry it had (Active, or FailedAt at an
\* earlier offset); the leader of v becomes Active only if it has no entry
\* by then; every other entry is unchanged, so that a validator FailedAt in
\* the epoch is never Active again in it.
ActivityTracking ==
    Running => \A block \in MicroBlocks(Self) :
                  push_micro_block(Self, block, 0).ret = "Ok"
                  => TrackedStamping(Self, block, push_micro_block(Self, block, 0).st)

\* C26 witness: a validator failed at offset 0 and a micro-block at
\* offset 1 skips a view change of the same leader: its entry moves to
\* FailedAt(epoch, 1).
ActivityTrackingWitness ==
    /\ Running
    /\ offset = 1
    /\ \E block \in MicroBlocks(Self) :
          /\ block.view_change > 0
          /\ push_micro_block(Self, block, 0).ret = "Ok"
          /\ \E k \in SkippedLeaders(Self, block) :
                /\ k \in DOMAIN Activity(Self)
                /\ Activity(Self)[k] = FailedAt(epoch, 0)
                /\ Activity(push_micro_block(Self, block, 0).st)[k] = FailedAt(epoch, 1)
          /\ TrackedStamping(Self, block, push_micro_block(Self, block, 0).st)

\* The bitmaps a macro-block may carry for up to MaxActivityLen validators.
ActivityMaps ==
    UNION { { [ cap |-> n, bits |-> b ] : b \in SUBSET (0 .. (n - 1)) } : n \in 0 .. MaxActivityLen }

\* The account of the validator v in the escrow of st.
AccountKey(st, v) == Unwrap(account_by_network_key(st.escrow, v))

\* The accounts of the validators vs.
AccountKeys(st, vs) == { AccountKey(st, vs[i][1]) : i \in DOMAIN vs }

\* The activity r built from the bitmap m for the validators vs: one entry
\* for each account, FailedAt when a validator of the account is not in m.
ActivityIsOf(st, vs, m, r) ==
    IF m.cap > Len(vs)
    THEN r.panic = "" /\ r.err = "TooBigActivitymap" /\ r.value = EmptyMap
    ELSE /\ r.panic = ""
         /\ r.err = ""
         /\ DOMAIN r.value = AccountKeys(st, vs)
         /\ \A a \in AccountKeys(st, vs) :
               r.value[a] = IF \E i \in DOMAIN vs : AccountKey(st, vs[i][1]) = a
                                                    /\ (i - 1) \notin m.bits
                            THEN FailedAt(st.epoch, st.offset)
                            ELSE Active

KeyLists ==
    { <<>>, << Payer >>, << AccountOf(1), Payer >>, << Payer, AccountOf(1), AccountOf(2) >>,
      << AccountOf(2), AccountOf(2) >>, << 99 >> }

\* The hashes of the unspent outputs of st that pkey owns, found through
\* output_by_hash.
OwnedUnspent(st, pkey) ==
    { h \in unspent(st) : is_my_utxo(Unwrap(output_by_hash(st, h).value), pkey) }

\* The macro-blocks of the log of st before the record at lsn.
MacroBlocksBefore(st, lsn) ==
    { k \in DOMAIN st.database : st.database[k].kind = "Macro" /\ BytesLess(k, block_key(lsn)) }

\* The entry e reports an unspent output of st with the finality, the epoch
\* and the timestamp of the block that created it.
ReportsOutput(st, e) ==
    /\ contains_output(st, Digest(e.output))
    /\ Unwrap(output_by_hash(st, Digest(e.output)).value) = e.output
    /\ e.is_final = (Unwrap(MvmGet(st.output_by_hash, Digest(e.output))).kind = "MacroBlock")
    /\ e.epoch = Cardinality(MacroBlocksBefore(
                     st, OutputKeyLsn(Unwrap(MvmGet(st.output_by_hash, Digest(e.output))))))
    /\ e.timestamp = Unwrap(DbGet(st, OutputKeyLsn(Unwrap(MvmGet(st.output_by_hash,
                                                                 Digest(e.output)))))).timestamp

\* r is what recover_accounts has to return for the keys accounts.
RecoversAccounts(st, accounts, r) ==
    /\ r.panic = ""
    /\ DOMAIN r.value = DOMAIN accounts
    /\ \A id \in DOMAIN accounts :
          /\ { Digest(r.value[id][i].output) : i \in DOMAIN r.value[id] }
                = OwnedUnspent(st, accounts[id])
          /\ Len(r.value[id]) = Cardinality(OwnedUnspent(st, accounts[id]))
          /\ \A i \in DOMAIN r.value[id] : ReportsOutput(st, r.value[id][i])

\* C28: recover_accounts reports for each key every unspent output the key
\* owns exactly once and no spent output, is_final iff a macro-block
\* created the output, epoch the number of macro-blocks of the log before
\* the creating block (0 for the outputs of the genesis).
RecoverAccountsScan ==
    Running => /\ \A h \in unspent(Self) : output_by_hash(Self, h).panic = ""
               /\ \A accounts \in KeyLists :
                     RecoversAccounts(Self, accounts, recover_accounts(Self, accounts))

\* C28 witness: in the second epoch, after a micro-block, the payer has
\* spent its genesis output and holds an output of a micro-block, validator
\* 1 an output of the genesis; both are reported, the spent output is not.
RecoverAccountsScanWitness ==
    /\ Running
    /\ epoch = 2
    /\ offset = 1
    /\ ~contains_output(Self, Digest(GenesisOutputs[3]))
    /\ \E i \in DOMAIN recover_accounts(Self, << AccountOf(1), Payer >>).value[1] :
          /\ recover_accounts(Self, << AccountOf(1), Payer >>).value[1][i].is_final
          /\ recover_accounts(Self, << AccountOf(1), Payer >>).value[1][i].epoch = 0
    /\ \E i \in DOMAIN recover_accounts(Self, << AccountOf(1), Payer >>).value[2] :
          /\ ~recover_accounts(Self, << AccountOf(1), Payer >>).value[2][i].is_final
          /\ recover_accounts(Self, << AccountOf(1), Payer >>).value[2][i].epoch = 2
    /\ \A i \in DOMAIN recover_accounts(Self, << AccountOf(1), Payer >>).value[2] :
          recover_accounts(Self, << AccountOf(1), Payer >>).value[2][i].output /= GenesisOutputs[3]
    /\ RecoversAccounts(Self, << AccountOf(1), Payer >>,
                        recover_accounts(Self, << AccountOf(1), Payer >>))

\* C29: view_change_proof() holds a proof only for a view change made at
\* the current offset: if it is Some then view_change() > 0 and the proof
\* is the one a set_view_change call supplied at the current (epoch,
\* offset); it is None after push_micro_block, push_macro_block and
\* pop_micro_block.
ViewChangeProofIsCurrent ==
    Running /\ IsSome(view_change_proof)
    => /\ view_change(Self) > 0
       /\ Unwrap(view_change_proof) = ProofFor(Self, view_change(Self))

\* The outcome of pop_micro_block in st.
Popped(st) == pop_micro_block(st, 0)

\* The LSN of the last micro-block of st, which pop_micro_block removes.
PoppedLsn(st) == MicroLSN(st.epoch, st.offset - 1)

\* The micro-blocks other than b that consensus may deliver once b is popped
\* from st: same epoch, offset and previous hash.
Replacements(st, b) ==
    { c \in MicroBlocks(Popped(st).st) :
        /\ c /= b
        /\ c.epoch = b.epoch /\ c.offset = b.offset /\ c.previous = b.previous }

\* The micro-block c is applied to the ledger now, left by the pop in st,
\* and takes the place of the popped block.
Replaces(st, now, c) ==
    /\ push_micro_block(now, c, 0).st.panic \notin { "Block hash collision", "UTXO hash collision" }
    /\ push_micro_block(now, c, 0).ret = "Ok"
       => /\ DbGet(push_micro_block(now, c, 0).st, PoppedLsn(st)) = Some(c)
          /\ contains_block(push_micro_block(now, c, 0).st, Digest(c))
          /\ Unwrap(MvmGet(push_micro_block(now, c, 0).st.block_by_hash, Digest(c))) = PoppedLsn(st)
          /\ \A o \in Range(FlatTxouts(c.transactions)) :
                contains_output(push_micro_block(now, c, 0).st, Digest(o))

\* pop_micro_block on st removed the block b and left the ledger now.
PopFrees(st, b, now) ==
    /\ ~contains_block(now, Digest(b))
    /\ DbGet(now, PoppedLsn(st)) = None
    /\ \A o \in Range(FlatTxouts(b.transactions)) : ~contains_output(now, Digest(o))
    /\ \A c \in Replacements(st, b) : Replaces(st, now, c)

\* C30: after pop_micro_block removed the block B from the LSN L,
\* contains_block(hash(B)) is false and the log has no record at L; another
\* micro-block B' with the epoch, offset and previous hash of B is then
\* applied at L without a collision of block hashes or of UTXO hashes, and
\* then the log holds B' at L and contains_block(hash(B')) is true.
PopThenReapply ==
    Running /\ offset > 0 /\ Popped(Self).ret = "Ok"
    => PopFrees(Self, LastMicroBlock(Self), Popped(Self).st)

\* C30 witness: the last micro-block has a coinbase and can be popped; a
\* different micro-block that creates the same coinbase output and one of
\* another view change are applied in its place.
PopThenReapplyWitness ==
    /\ Running
    /\ offset > 0
    /\ Popped(Self).ret = "Ok"
    /\ LastMicroBlock(Self).transactions /= <<>>
    /\ \E c \in Replacements(Self, LastMicroBlock(Self)) :
          /\ Range(FlatTxouts(c.transactions))
                \cap Range(FlatTxouts(LastMicroBlock(Self).transactions)) /= {}
          /\ push_micro_block(Popped(Self).st, c, 0).ret = "Ok"
    /\ \E c \in Replacements(Self, LastMicroBlock(Self)) :
          /\ c.view_change /= LastMicroBlock(Self).view_change
          /\ push_micro_block(Popped(Self).st, c, 0).ret = "Ok"
    /\ PopFrees(Self, LastMicroBlock(Self), Popped(Self).st)

\* The cheaters named by the slashing transactions of block.
Cheaters(block) ==
    { tx.cheater : tx \in { t \in Range(block.transactions) : t.kind = "Slashing" } }

\* The metadata of the ledger now after block was applied to st.
MetadataAfterPush(st, block, now) ==
    /\ now.epoch = st.epoch
    /\ now.offset = st.offset + 1
    /\ now.last_block_hash = Digest(block)
    /\ now.last_block_timestamp = block.timestamp
    /\ view_change(now) = 0
    /\ last_random(now) = block.random
    /\ election_result(now).facilitator = election_result(st).facilitator
    /\ validators(now) = Without(validators(st), Cheaters(block))

\* C31: after push_micro_block(B) succeeded offset() is one more,
\* last_block_hash() is the hash of B, last_block_timestamp() its timestamp,
\* view_change() is 0, last_random() is the random of B, and the facilitator
\* and the validators are the same but for the cheaters that the slashing
\* transactions of B name.
MicroBlockMetadata ==
    Running => \A block \in MicroBlocks(Self) :
                  push_micro_block(Self, block, 0).ret = "Ok"
                  => MetadataAfterPush(Self, block, push_micro_block(Self, block, 0).st)

\* C31 witness: a view change is pending and the micro-block of the next
\* leader, with another random and a slashing transaction, is applied.
MicroBlockMetadataWitness ==
    /\ Running
    /\ view_change(Self) > 0
    /\ \E block \in MicroBlocks(Self) :
          /\ push_micro_block(Self, block, 0).ret = "Ok"
          /\ block.random /= last_random(Self)
          /\ Cheaters(block) /= {}
          /\ Len(validators(push_micro_block(Self, block, 0).st)) < Len(validators(Self))
          /\ MetadataAfterPush(Self, block, push_micro_block(Self, block, 0).st)

\* epoch(), last_macro_block_hash(), last_macro_block_timestamp(),
\* last_macro_block_random() and difficulty() of st.
MacroFields(st) ==
    << st.epoch, st.last_macro_block_hash, st.last_macro_block_timestamp,
       st.last_macro_block_random, st.difficulty >>

\* push_micro_block and pop_micro_block on st leave the macro fields, also
\* when they abort.
MicroKeepsMacroFields(st) ==
    /\ \A block \in MicroBlocks(st) :
          MacroFields(push_micro_block(st, block, 0).st) = MacroFields(st)
    /\ st.offset > 0 => MacroFields(pop_micro_block(st, 0).st) = MacroFields(st)

\* push_macro_block of block on st gave the ledger now: the macro fields
\* are those of the block.
MacroSetsMacroFields(st, block, now) ==
    /\ now.epoch = st.epoch + 1
    /\ now.last_macro_block_hash = Digest(block)
    /\ now.last_macro_block_hash /= st.last_macro_block_hash
    /\ now.last_macro_block_timestamp = block.timestamp
    /\ now.last_macro_block_timestamp > st.last_macro_block_timestamp
    /\ now.last_macro_block_random = block.random
    /\ now.difficulty = block.difficulty

\* The macro fields in a state of the model.
MacroFieldsNow == MacroFields(Self)

\* A step that changes a macro field enters the next epoch.
MacroFieldsStep == MacroFieldsNow' /= MacroFieldsNow => epoch' = epoch + 1 /\ offset' = 0

\* The current state keeps the macro fields over micro-blocks and takes
\* those of a proposed macro-block.
MacroFieldsKept ==
    Running => /\ MicroKeepsMacroFields(Self)
               /\ IsSome(proposal) /\ push_macro_block(Self, Unwrap(proposal), 0).ret = "Ok"
                  => MacroSetsMacroFields(Self, Unwrap(proposal),
                                          push_macro_block(Self, Unwrap(proposal), 0).st)

\* C32: push_micro_block and pop_micro_block leave epoch(),
\* last_macro_block_hash(), last_macro_block_timestamp(),
\* last_macro_block_random() and difficulty() unchanged; only
\* push_macro_block changes them.
MacroFieldsFrame == []MacroFieldsKept /\ [][MacroFieldsStep]_vars

\* C32 witness: in the second epoch, after a macro-block that changed the
\* macro fields, a micro-block is applied and can be popped, the macro
\* fields staying those of the macro-block.
MacroFieldsFrameWitness ==
    /\ Running
    /\ epoch = 2
    /\ offset = 1
    /\ last_macro_block_hash = Digest(Unwrap(DbGet(Self, MacroLSN(1))))
    /\ last_macro_block_timestamp = Unwrap(DbGet(Self, MacroLSN(1))).timestamp
    /\ last_block_timestamp > last_macro_block_timestamp
    /\ last_block_hash /= last_macro_block_hash
    /\ pop_micro_block(Self, 0).ret = "Ok"
    /\ MicroKeepsMacroFields(Self)

\* The micro-block of the current epoch of st at offset k.
MicroBlockAt(st, k) == Unwrap(DbGet(st, MicroLSN(st.epoch, k)))

\* The cheaters named by the micro-blocks of the epoch of st before offset k.
CheatersBefore(st, k) == UNION { Cheaters(MicroBlockAt(st, i)) : i \in 0 .. (k - 1) }

\* r is the election result of st as it stood after the micro-block k - 1
\* of the epoch was applied.
ElectionAfterBlock(st, k, r) ==
    /\ r.panic = ""
    /\ Unwrap(r.value).view_change = 0
    /\ Unwrap(r.value).random = MicroBlockAt(st, k - 1).random
    /\ Unwrap(r.value).validators
          = Without(Unwrap(validators_at_epoch_start(st).value), CheatersBefore(st, k))
    /\ Unwrap(r.value).facilitator = election_result(st).facilitator
    /\ Unwrap(r.value) = election_result(AsOf(st, MicroLSN(st.epoch, k - 1)))

\* C33: for 0 < k <= offset(), election_result_by_offset(k) is the election
\* result as it stood after the micro-block k - 1 of the epoch was applied:
\* view_change 0, the random of that block, the validators after its
\* slashings, whatever blocks, view changes and reverts came later or
\* earlier at that LSN.
ElectionByOffset ==
    Running => \A k \in 1 .. offset :
                  ElectionAfterBlock(Self, k, election_result_by_offset(Self, k))

\* C33 witness: two micro-blocks of the epoch are applied, the first with a
\* slashing, and a view change is pending: the election results of offsets
\* 1 and 2 differ from each other and from the current one.
ElectionByOffsetWitness ==
    /\ Running
    /\ offset = 2
    /\ view_change(Self) > 0
    /\ Cheaters(MicroBlockAt(Self, 0)) /= {}
    /\ MicroBlockAt(Self, 0).random /= MicroBlockAt(Self, 1).random
    /\ Unwrap(election_result_by_offset(Self, 1).value)
          /= Unwrap(election_result_by_offset(Self, 2).value)
    /\ Unwrap(election_result_by_offset(Self, 2).value) /= election_result(Self)
    /\ ElectionAfterBlock(Self, 1, election_result_by_offset(Self, 1))
    /\ ElectionAfterBlock(Self, 2, election_result_by_offset(Self, 2))

\* The micro-blocks in the log of st.
StoredMicroBlocks(st) == { b \in Range(blocks(st)) : b.kind = "Micro" }

\* The log of st holds the micro-blocks 0 .. offset - 1 of the current
\* epoch and no other micro-block.
EpochShape(st) ==
    /\ st.offset <= cfg.micro_blocks_in_epoch
    /\ \A b \in StoredMicroBlocks(st) : b.epoch = st.epoch
    /\ { b.offset : b \in StoredMicroBlocks(st) } = 0 .. (st.offset - 1)
    /\ Cardinality(StoredMicroBlocks(st)) = st.offset

\* C34: in every reachable state offset() <= micro_blocks_in_epoch, every
\* micro-block of the log is of the current epoch and the offsets of the
\* stored micro-blocks are 0 .. offset() - 1; push_micro_block is refused
\* when the epoch is full and push_macro_block when offset() is not 0.
EpochShapeKept ==
    Running => /\ EpochShape(Self)
               /\ is_epoch_full(Self)
                  => \A vc \in 0 .. MaxViewChange :
                        push_micro_block(Self, NextMicroBlock(Self, vc, <<>>), 0).ret = "Panic"
               /\ IsSome(proposal) /\ offset > 0
                  => push_macro_block(Self, Unwrap(proposal), 0).ret = "Panic"

\* C35: when pop_micro_block returns a StorageError, the block log and the
\* whole in-memory state (offset, last_block_hash, last_block_timestamp,
\* view change and every index) are as before the call: the block is not
\* deleted from the log unless the pop is reported as successful.
PopFailsClean ==
    Running /\ offset > 0
    => \A fail \in 1 .. MaxFail :
          pop_micro_block(Self, fail).ret = "StorageError"
          => pop_micro_block(Self, fail).st = Self

\* The ledger st has applied every block of its log.
FullyApplied(st) ==
    /\ st.last_block_hash = Digest(blocks(st)[Len(blocks(st))])
    /\ st.offset = Cardinality({ b \in Range(blocks(st)) : b.kind = "Micro" /\ b.epoch = st.epoch })
    /\ st = new(st.database, Genesis).st

\* C36: new() returns Ok only when every block of the log is applied to the
\* in-memory state; a storage error while a stored block is applied again
\* makes new() return an error, not a ledger that lags behind its log.
RecoveryAppliesAll ==
    Running => \A at \in 1 .. Len(blocks(Self)) : \A fail \in 0 .. MaxFail :
                  NewOn(database, Genesis, at, fail).ret = "Ok"
                  => FullyApplied(NewOn(database, Genesis, at, fail).st)

\* At the start of an epoch the last block of st is its last macro-block.
AtMacroBlock(st) ==
    /\ st.last_block_hash = st.last_macro_block_hash
    /\ st.last_block_timestamp = st.last_macro_block_timestamp
    /\ st.last_block_hash = Digest(Unwrap(DbGet(st, MacroLSN(st.epoch - 1))))
    /\ st.last_block_timestamp = Unwrap(DbGet(st, MacroLSN(st.epoch - 1))).timestamp

\* C37: in every reachable state with offset() = 0, last_block_hash() is
\* last_macro_block_hash() and last_block_timestamp() is
\* last_macro_block_timestamp(), also after the first micro-block of the
\* epoch was popped; a macro-block that passes the two assertions on the
\* last macro-block passes the one on last_block_timestamp.
EpochStartMetadata ==
    Running /\ offset = 0
    => /\ AtMacroBlock(Self)
       /\ IsSome(proposal)
          => push_macro_block(Self, Unwrap(proposal), 0).st.panic
                /= "block.header.timestamp > last_block_timestamp"

\* C37 witness: the second epoch is back at offset 0 after a pop or a
\* view change wrote the election result at (2, 0); the last block is the
\* macro-block of the first epoch.
EpochStartMetadataWitness ==
    /\ Running
    /\ epoch = 2
    /\ offset = 0
    /\ election_result_lsn(Self) = MicroLSN(2, 0)
    /\ last_block_hash /= Digest(Genesis)
    /\ AtMacroBlock(Self)

\* The leaders of the view changes 0 .. view_change of the micro-block at
\* offset k of the epoch of st, by the election as the block was applied.
LeadersOfBlock(st, k) ==
    { ElectionSlot(Without(Unwrap(election_result_by_offset(st, k).value).validators,
                           Cheaters(MicroBlockAt(st, k))),
                   Unwrap(election_result_by_offset(st, k).value).random, v) :
        v \in 0 .. MicroBlockAt(st, k).view_change }

\* The recorded activity of st describes the micro-blocks of its epoch.
ActivityOfCurrentEpoch(st) ==
    /\ \A key \in DOMAIN Activity(st) :
          /\ Activity(st)[key].kind = "FailedAt"
             => Activity(st)[key].epoch = st.epoch /\ Activity(st)[key].offset < st.offset
          /\ \E k \in 0 .. (st.offset - 1) : key \in LeadersOfBlock(st, k)
    /\ st.offset = 0 => Activity(st) = EmptyMap

\* C38: in every reachable state every entry FailedAt(e, o) of
\* epoch_activity() has e = epoch() and o < offset(), every key of it led a
\* view change of a micro-block that is in the log, and epoch_activity() is
\* empty when offset() = 0, as it is after every push_macro_block.
ActivityIsCurrent == Running => ActivityOfCurrentEpoch(Self)

\* C38 witness: in the second epoch, after a macro-block, a micro-block of
\* view change 1 is applied: its leader is active and the skipped leader
\* failed at (2, 0).
ActivityIsCurrentWitness ==
    /\ Running
    /\ epoch = 2
    /\ offset = 1
    /\ MicroBlockAt(Self, 0).view_change = 1
    /\ \E key \in DOMAIN Activity(Self) : Activity(Self)[key] = FailedAt(2, 0)
    /\ \E key \in DOMAIN Activity(Self) : Activity(Self)[key] = Active
    /\ ActivityOfCurrentEpoch(Self)


\* The poll that is taken handles a report that the wallet holds at least
\* MIN_BALANCE, or that the transaction created last is committed.
Funded ==
    \/ /\ generator.state = "NotInited"
       /\ generator.rx.kind = "BalanceInfo"
       /\ generator.rx.balance >= MIN_BALANCE
    \/ /\ generator.state = "WaitForBalance"
       /\ generator.rx.kind = "BalanceChanged"
       /\ generator.rx.balance >= MIN_BALANCE
    \/ /\ generator.state = "WaitForConfirmation"
       /\ generator.rx.kind = "TransactionCommitted"

\* The step sends a Payment or SecurePayment request to the wallet.
SendsPayment ==
    /\ generator'.sent = generator.sent + 1
    /\ generator'.request = IF generator.mode = "ValueShuffle" THEN "SecurePayment" ELSE "Payment"

\* The step handles the response Error.
HandlesError ==
    /\ generator.rx.kind = "Error"
    /\ generator'.rx /= generator.rx
    /\ generator'.panic = ""

GeneratorStep ==
    /\ generator'.sent /= generator.sent => SendsPayment /\ Funded
    /\ HandlesError =>
         /\ generator'.state = "NotInited"
         /\ generator'.request = "BalanceInfo"
         /\ generator'.rx = NotReady
         /\ generator'.sent = generator.sent

\* C39: the generator sends a payment request only in a poll that handles
\* a balance of at least MIN_BALANCE (BalanceInfo or BalanceChanged) or
\* TransactionCommitted, an Error response sends it back to NotInited with a
\* fresh BalanceInfo request, and no other response makes it send one.
GeneratesWhenFunded == [][GeneratorStep]_vars


RECURSIVE SumUnspent(_)
\* The sum of the amounts of the entries of the map unspent.
SumUnspent(m) ==
    IF DOMAIN m = {} THEN 0
    ELSE m[CHOOSE h \in DOMAIN m : TRUE][2]
         + SumUnspent(MapDel(m, CHOOSE h \in DOMAIN m : TRUE))

\* balance is the sum of the amounts held in unspent and is not negative.
BalanceIsSum ==
    wallet.panic = "" => wallet.balance = SumUnspent(wallet.unspent) /\ wallet.balance >= 0

\* BalanceChanged is in the notifications ns.
HasBalanceChanged(ns) == \E i \in DOMAIN ns : ns[i].kind = "BalanceChanged"

\* The call that returned told of the balance iff it changed it, last and
\* with the new balance.
BalanceNotified ==
    wallet'.panic = "" =>
      /\ HasBalanceChanged(wallet'.notifications) <=> wallet'.balance /= wallet.balance
      /\ \A i \in DOMAIN wallet'.notifications :
           wallet'.notifications[i].kind = "BalanceChanged" =>
             /\ i = Len(wallet'.notifications)
             /\ wallet'.notifications[i].balance = wallet'.balance

\* C40: after calls of on_outputs_changed that trip no assertion, balance
\* is the sum of the amounts of the payment outputs in unspent and is >= 0,
\* and a call returns BalanceChanged, last and with the new balance, iff it
\* changed the balance.
WalletBalance == []BalanceIsSum /\ [][BalanceNotified]_vars
====
